---- MODULE Spec2Model ----
(***************************************************************************)
(* A model of the job-scraper's extraction core:                           *)
(*   - the agent pipeline (agents/base_agent.py, agents/orchestrator.py    *)
(*     and the validate/execute contracts of the four agents);             *)
(*   - the hybrid scraper (scrapers/hybrid_scraper.py): deterministic      *)
(*     parse, oracle fallback and merge;                                   *)
(*   - the adaptive fetcher (utils/adaptive_fetcher.py);                   *)
(*   - record extraction from cards (agents/extractor_agent.py and the     *)
(*     _parse_html of scrapers/geekhunter.py and scrapers/vagas.py) and    *)
(*     record ids (agents/agno_job_extractor.py);                          *)
(*   - the DGES crawl (scrapers/dges.py) and its _fetch_page, the batch    *)
(*     enrichment (scrapers/enricher.py) and the extraction cache          *)
(*     (agents/agno_extractor.py);                                         *)
(*   - the card detection of the analyzer (agents/analyzer_agent.py);      *)
(*   - the shared browser (utils/browser.py), the EduPortugal crawls       *)
(*     (scrapers/eduportugal.py), the endpoints of main.py that take a     *)
(*     base_url, and two concurrent runs of the agent pipeline.            *)
(* Each subsystem has its own specification (PipelineSpec, HybridSpec,     *)
(* MergeSpec for _merge_jobs called on its own, FetchSpec, ExtractSpec,    *)
(* IdSpec, DgesSpec, EnrichSpec, CacheSpec, FetchPageSpec, AnalyzerSpec,   *)
(* BrowserSpec, EduSpec, EndpointSpec, RunsSpec); the variables of the     *)
(* other subsystems stay at their initial value.                           *)
(***************************************************************************)
EXTENDS Integers, Sequences, FiniteSets, TLC

VARIABLES
    \* ---- agent pipeline (one run of AgentOrchestrator.search[_with_details])
    pc,                \* "idle" | "loop" | "return" | "done"
    detailed,          \* TRUE: search_with_details, FALSE: search
    idx,               \* index in `pipeline` of the stage the for-loop is at
    context,           \* the run's AgentContext
    pipeline_results,  \* search_with_details' list of stage entries
    calls,             \* history: one entry per BaseAgent.run call of the run
    returned,          \* the value handed back to the caller (NoReturn before)
    \* ---- hybrid scraper (one call of HybridScraper.search)
    hpc,               \* "idle" | "fetching" | "fetched" | "parsed" | "ai_done" | "done" | "raised"
    hlimit,            \* the call's limit argument
    enabled,           \* AI_FALLBACK_ENABLED
    available,         \* extractor.is_available()
    parsed,            \* what _parse_html returned
    ai_jobs,           \* what _try_ai_extraction returned
    jobs,              \* the local `jobs` of search
    oracle_calls,      \* history: number of extractor.extract_jobs calls
    oracle_outcome,    \* history: how the fallback's oracle step went (None before)
    hreturned,         \* the list search returned
    \* ---- a direct call of HybridScraper._merge_jobs
    mpc,               \* "call" | "returned"
    primary,           \* the arguments of the call
    secondary,
    limit,
    merged,            \* the list the call returned
    \* ---- one call of AdaptiveFetcher.fetch
    fpc,               \* "idle" | "http" | "render_direct" | "render_try" | "render_final" | "done" | "failed"
    furl,              \* the call's url argument
    force_js,          \* the call's force_js argument
    http_outcome,      \* <<what fetch_with_http did>> (<<>> before it ran)
    http_calls,        \* history: number of fetch_with_http calls
    render_calls,      \* history: number of fetch_with_playwright calls
    render_errors,     \* history: the errors fetch_with_playwright raised, in order
    fetched,           \* <<the markup fetch returned>> (<<>> until then)
    fetch_error,       \* <<the error fetch raised>> (<<>> unless it did)
    \* ---- one call of a record extractor on the cards of a page
    xpc,               \* "input" | "done"
    xcards,            \* the containers the card selector matched, in page order
    xlimit,            \* the limit of the call
    xwho,              \* which extractor ran: "extractor" | "geekhunter" | "vagascombr"
    xsource,           \* context.source of an ExtractorAgent call
    xjobs,             \* the records of the call
    xexamined,         \* history: how many containers the loop looked at
    \* ---- records produced over several runs of the service
    hash_seed,         \* the running process's string-hash seed (PYTHONHASHSEED)
    id_records,        \* history: the records produced so far, over all runs
    \* ---- one call of DGESScraper.scrape_all
    dpc,               \* "idle" | "crawl" | "done" | "raised"
    dregions,          \* regions_to_scrape
    dpos,              \* position in dregions of the region being crawled
    dattempt,          \* `attempt` of _fetch_page's loop for that region
    universities,      \* the local lists of scrape_all
    courses,
    doutcomes,         \* history: per region crawled, the outcomes of its requests
    dcontrib,          \* history: per region crawled, what it added to the lists
    dreturned,         \* <<the dict scrape_all returned>> (<<>> before)
    \* ---- one call of UniversityEnricher.enrich_batch
    epc,               \* "idle" | "gathering" | "done"
    has_website,       \* per unit of the batch: whether uni.get('website') is truthy
    max_concurrent,    \* the call's max_concurrent
    sem_value,         \* the semaphore's counter
    phase,             \* per unit, where its enrich_one task is
    holding,           \* history: the units inside `async with semaphore`
    slept,             \* history: the units whose asyncio.sleep(delay_seconds) is over
    processed,         \* the list enrich_batch returned
    \* ---- the extract calls made on one AgnoExtractionAgent
    cache,             \* self._cache: cache key -> result
    ccalls,            \* history: one entry per extract call, in order of start
    \* ---- one call of DGESScraper._fetch_page
    qpc,               \* "idle" | "delay" | "get" | "returned" | "raised"
    qretries,          \* the call's retries argument
    qattempt,          \* `attempt` of the for-loop
    last_error,        \* <<the local last_error>> (<<>> for None)
    qevents,           \* history: the sleeps and requests of the call, in order
    qresult,           \* <<the page the call returned>> (<<>> unless it returned)
    qraised,           \* <<the error the call raised>> (<<>> unless it raised)
    \* ---- the card detection of one AnalyzerAgent.execute call
    apc,               \* "idle" | "known_done" | "done"
    asource,           \* context.source
    known_counts,      \* per known job_cards selector of the source: len(soup.select(selector))
    pattern_counts,    \* per generic pattern: len(soup.select(pattern)) (<<>> unless tried)
    job_card_selector, \* the locals of execute
    job_cards_count,
    \* ---- concurrent BrowserManager.get_browser calls on the global browser_manager
    bpc,               \* per caller: "idle" | "starting" | "launching" | "returned"
    mgr_browser,       \* self._browser: 0 for None, else the id of a launched browser
    mgr_playwright,    \* self._playwright: 0 for None, else the id of a started driver
    browsers_launched, \* history: the ids of the browsers launched
    drivers_started,   \* history: the ids of the Playwright drivers started
    got,               \* per caller: the browser get_browser returned (0 before)
    \* ---- one call of EduPortugalScraper.scrape_universities or scrape_courses
    upc,               \* "idle" | "first" | "pages" | "done" | "raised"
    uwhat,             \* "universities" | "courses"
    levels_to_scrape,  \* scrape_courses' list (<<"universities">> for the other crawl)
    ulevel,            \* position in levels_to_scrape of the listing being crawled
    page_num,          \* the page the crawl is at
    total_pages,       \* the local total_pages of the listing being crawled
    ulisting,          \* the listing's local list (universities / courses)
    all_courses,       \* scrape_courses' list
    uattempts,         \* history: the _fetch_page calls of the crawl, in order
    ureturned,         \* <<the list the crawl returned>> (<<>> before)
    \* ---- concurrent requests to a scraping endpoint that accepts base_url
    rpc,               \* per request: "idle" | "crawling" | "done"
    rarg,              \* per request: its base_url query argument (None when not passed)
    original_base_url, \* per request: the handler's local original_base_url
    scraper_base_url,  \* the shared scraper's base_url attribute
    crawled_with,      \* history, per request: the base urls its crawl read
    \* ---- two concurrent runs of AgentOrchestrator.search on one orchestrator
    contexts,          \* the AgentContext objects constructed so far
    kpc,               \* per run: "idle" | "loop" | "return" | "done"
    kidx,              \* per run: index in `pipeline` of the stage its loop is at
    kctx,              \* per run: which object its local `context` refers to (0 before)
    kargs,             \* per run: the keyword and source it was called with
    own_errors,        \* history, per run: the errors its own agent.run calls added
    kreturned          \* per run: <<(jobs, errors)>> once it returned

pvars == <<pc, detailed, idx, context, pipeline_results, calls, returned>>
hvars == <<hpc, hlimit, enabled, available, parsed, ai_jobs, jobs, oracle_calls,
           oracle_outcome, hreturned>>
mvars == <<mpc, primary, secondary, limit, merged>>
fvars == <<fpc, furl, force_js, http_outcome, http_calls, render_calls,
           render_errors, fetched, fetch_error>>
xvars == <<xpc, xcards, xlimit, xwho, xsource, xjobs, xexamined>>
\* the subsystems modelled after the hybrid scraper
ivars == <<hash_seed, id_records>>
dvars == <<dpc, dregions, dpos, dattempt, universities, courses, doutcomes,
           dcontrib, dreturned>>
evars == <<epc, has_website, max_concurrent, sem_value, phase, holding, slept, processed>>
cvars == <<cache, ccalls>>
\* the remaining subsystems
qvars == <<qpc, qretries, qattempt, last_error, qevents, qresult, qraised>>
avars == <<apc, asource, known_counts, pattern_counts, job_card_selector, job_cards_count>>
bvars == <<bpc, mgr_browser, mgr_playwright, browsers_launched, drivers_started, got>>
kvars == <<contexts, kpc, kidx, kctx, kargs, own_errors, kreturned>>
rvars == <<rpc, rarg, original_base_url, scraper_base_url, crawled_with>>
uvars == <<upc, uwhat, levels_to_scrape, ulevel, page_num, total_pages, ulisting,
           all_courses, uattempts, ureturned>>
second == <<fvars, xvars, ivars, dvars, evars, cvars>>
third == <<qvars, avars, bvars, uvars, rvars, kvars>>
later == <<second, third>>
notF == <<pvars, hvars, mvars, xvars, ivars, dvars, evars, cvars, third>>
notX == <<pvars, hvars, mvars, fvars, ivars, dvars, evars, cvars, third>>
notI == <<pvars, hvars, mvars, fvars, xvars, dvars, evars, cvars, third>>
notD == <<pvars, hvars, mvars, fvars, xvars, ivars, evars, cvars, third>>
notE == <<pvars, hvars, mvars, fvars, xvars, ivars, dvars, cvars, third>>
notC == <<pvars, hvars, mvars, fvars, xvars, ivars, dvars, evars, third>>
notQ == <<pvars, hvars, mvars, second, avars, bvars, uvars, rvars, kvars>>
notA == <<pvars, hvars, mvars, second, qvars, bvars, uvars, rvars, kvars>>
notB == <<pvars, hvars, mvars, second, qvars, avars, uvars, rvars, kvars>>
notU == <<pvars, hvars, mvars, second, qvars, avars, bvars, rvars, kvars>>
notR == <<pvars, hvars, mvars, second, qvars, avars, bvars, uvars, kvars>>
notK == <<pvars, hvars, mvars, second, qvars, avars, bvars, uvars, rvars>>
vars == <<pvars, hvars, mvars, later>>

None == "<None>"

FetchIdle ==
    /\ fpc = "idle" /\ furl = None /\ force_js = FALSE /\ http_outcome = <<>>
    /\ http_calls = 0 /\ render_calls = 0 /\ render_errors = <<>>
    /\ fetched = <<>> /\ fetch_error = <<>>

ExtractIdle ==
    /\ xpc = "input" /\ xcards = <<>> /\ xlimit = 0 /\ xwho = None
    /\ xsource = None /\ xjobs = <<>> /\ xexamined = 0

IdIdle == hash_seed = 0 /\ id_records = <<>>

DgesIdle ==
    /\ dpc = "idle" /\ dregions = <<>> /\ dpos = 1 /\ dattempt = 0
    /\ universities = <<>> /\ courses = <<>>
    /\ doutcomes = <<>> /\ dcontrib = <<>> /\ dreturned = <<>>

EnrichIdle ==
    /\ epc = "idle" /\ has_website = <<>> /\ max_concurrent = 0 /\ sem_value = 0
    /\ phase = <<>> /\ holding = {} /\ slept = {} /\ processed = <<>>

CacheIdle == cache = <<>> /\ ccalls = <<>>

FetchPageIdle ==
    /\ qpc = "idle" /\ qretries = 0 /\ qattempt = 0 /\ last_error = <<>>
    /\ qevents = <<>> /\ qresult = <<>> /\ qraised = <<>>

AnalyzerIdle ==
    /\ apc = "idle" /\ asource = None /\ known_counts = <<>> /\ pattern_counts = <<>>
    /\ job_card_selector = None /\ job_cards_count = 0

BrowserIdle ==
    /\ bpc = <<>> /\ mgr_browser = 0 /\ mgr_playwright = 0
    /\ browsers_launched = {} /\ drivers_started = {} /\ got = <<>>

EduIdle ==
    /\ upc = "idle" /\ uwhat = None /\ levels_to_scrape = <<>> /\ ulevel = 1
    /\ page_num = 1 /\ total_pages = 1 /\ ulisting = <<>> /\ all_courses = <<>>
    /\ uattempts = <<>> /\ ureturned = <<>>

EndpointIdle ==
    /\ rpc = <<>> /\ rarg = <<>> /\ original_base_url = <<>>
    /\ scraper_base_url = None /\ crawled_with = <<>>

RunsIdle ==
    /\ contexts = <<>> /\ kpc = <<>> /\ kidx = <<>> /\ kctx = <<>> /\ kargs = <<>>
    /\ own_errors = <<>> /\ kreturned = <<>>

\* every later subsystem but s is in its idle state
LaterIdleExcept(s) ==
    /\ IF s = "fetch" THEN TRUE ELSE FetchIdle
    /\ IF s = "extract" THEN TRUE ELSE ExtractIdle
    /\ IF s = "id" THEN TRUE ELSE IdIdle
    /\ IF s = "dges" THEN TRUE ELSE DgesIdle
    /\ IF s = "enrich" THEN TRUE ELSE EnrichIdle
    /\ IF s = "cache" THEN TRUE ELSE CacheIdle
    /\ IF s = "page" THEN TRUE ELSE FetchPageIdle
    /\ IF s = "analyzer" THEN TRUE ELSE AnalyzerIdle
    /\ IF s = "browser" THEN TRUE ELSE BrowserIdle
    /\ IF s = "edu" THEN TRUE ELSE EduIdle
    /\ IF s = "endpoint" THEN TRUE ELSE EndpointIdle
    /\ IF s = "runs" THEN TRUE ELSE RunsIdle

LaterIdle == LaterIdleExcept("none")
SUCCESS == "success"
FAILED == "failed"
SKIPPED == "skipped"

(***************************************************************************)
(* AgentContext and AgentResult                                            *)
(***************************************************************************)
EmptyDict == [k \in {} |-> None]

\* AgentContext(keyword=..., source=..., limit=..., metadata=...): the fields
\* the modelled stages read or write (country, limit, pagination_info,
\* screenshot_path and page_structure are carried along and decide nothing here).
AgentContext(keyword, source, metadata) ==
    [ keyword |-> keyword, source |-> source, metadata |-> metadata,
      search_url |-> None, html_content |-> None, page_title |-> None,
      detected_selectors |-> EmptyDict, jobs |-> <<>>, errors |-> <<>> ]

add_error(ctx, error) == [ctx EXCEPT !.errors = Append(@, error)]

ResultSuccess(message) == [status |-> SUCCESS, message |-> message, error |-> None]
ResultFailed(error, message) == [status |-> FAILED, message |-> message, error |-> error]

(***************************************************************************)
(* SearchAgent                                                             *)
(***************************************************************************)
SOURCE_CONFIGS == {"geekhunter", "vagascombr"}

BaseUrl(source) ==
    IF source = "geekhunter" THEN "https://www.geekhunter.com.br"
    ELSE "https://www.vagas.com.br"

SearchValidate(ctx) ==
    IF ctx.keyword = "" THEN "keyword is required for SearchAgent"
    ELSE IF ctx.source = "" THEN "source is required for SearchAgent"
    ELSE IF ctx.source \notin SOURCE_CONFIGS THEN "Unknown source: " \o ctx.source
    ELSE None

\* quote_plus / urlencode of the keywords of the model
QuotePlus(s) == IF s = "dev ops" THEN "dev+ops" ELSE s
\* keyword.lower().replace(" ", "-")
Slug(s) == IF s = "dev ops" THEN "dev-ops" ELSE s

BuildUrl(ctx) ==
    IF ctx.source = "geekhunter"
    THEN BaseUrl(ctx.source) \o "/vagas?search=" \o QuotePlus(ctx.keyword)
         \o (IF ctx.metadata.remote_only THEN "&remote=true" ELSE "")
    ELSE BaseUrl(ctx.source) \o "/vagas-de-" \o QuotePlus(Slug(ctx.keyword))

\* execute: what the body does to the context and the result it returns;
\* raised: the body ended by an exception (with message msg); exception: an
\* exception was raised inside the body, whether it left the body or not.
SearchExecute(ctx, exc) ==
    IF exc
    THEN [raised |-> TRUE, exception |-> TRUE, msg |-> "search body error", ctx |-> ctx, result |-> None]
    ELSE [raised |-> FALSE, exception |-> FALSE, msg |-> None,
          ctx |-> [ctx EXCEPT !.search_url = BuildUrl(ctx)],
          result |-> ResultSuccess("Search URL built for " \o ctx.source)]

(***************************************************************************)
(* PageAgent                                                               *)
(***************************************************************************)
PageValidate(ctx) ==
    IF ctx.search_url = None \/ ctx.search_url = ""
    THEN "search_url is required for PageAgent" ELSE None

\* The body's own try/except turns every exception into a failed result.
\* failAt: "no" (no exception), or the statement that raised: "goto" (launch
\* or navigation, nothing written yet), "content" (page_title written),
\* "close" (page_title and html_content written, browser.close() raised).
PageExecute(ctx, failAt, html) ==
    LET withTitle == [ctx EXCEPT !.page_title = "title"]
        withHtml == [withTitle EXCEPT !.html_content = html]
    IN  [raised |-> FALSE, exception |-> failAt # "no", msg |-> None,
         ctx |-> CASE failAt = "goto" -> ctx
                   [] failAt = "content" -> withTitle
                   [] OTHER -> withHtml,
         result |-> IF failAt = "no" THEN ResultSuccess("Page loaded successfully")
                    ELSE ResultFailed("page error at " \o failAt, "Failed to load page")]

(***************************************************************************)
(* AnalyzerAgent                                                           *)
(***************************************************************************)
AnalyzerValidate(ctx) ==
    IF ctx.html_content = None \/ ctx.html_content = ""
    THEN "html_content is required for AnalyzerAgent" ELSE None

\* job_card: the selector _detect_job_cards / _auto_detect_job_cards found in
\* the markup (None when neither pass found a container).  The per-field
\* entries that no modelled stage reads are left out of the dict.
AnalyzerExecute(ctx, exc, job_card) ==
    IF exc
    THEN [raised |-> TRUE, exception |-> TRUE, msg |-> "analyzer body error", ctx |-> ctx, result |-> None]
    ELSE [raised |-> FALSE, exception |-> FALSE, msg |-> None,
          ctx |-> [ctx EXCEPT !.detected_selectors =
                      [job_card |-> job_card,
                       link |-> IF ctx.source = "geekhunter" THEN "a[href*=/vagas/]"
                                ELSE "a[href*=/vaga/]"]],
          result |-> ResultSuccess("Analyzed page structure")]

(***************************************************************************)
(* ExtractorAgent                                                          *)
(***************************************************************************)
DictGet(d, k) == IF k \in DOMAIN d THEN d[k] ELSE None

\* a variant that forgets the job_card check
ExtractorValidateNoCard(ctx) ==
    IF ctx.html_content = None \/ ctx.html_content = ""
    THEN "html_content is required for ExtractorAgent"
    ELSE IF ctx.detected_selectors = EmptyDict
    THEN "detected_selectors is required for ExtractorAgent"
    ELSE None

ExtractorValidate(ctx) ==
    IF ctx.html_content = None \/ ctx.html_content = ""
    THEN "html_content is required for ExtractorAgent"
    ELSE IF ctx.detected_selectors = EmptyDict
    THEN "detected_selectors is required for ExtractorAgent"
    ELSE IF DictGet(ctx.detected_selectors, "job_card") \in {None, ""}
    THEN "job_card selector is required for ExtractorAgent"
    ELSE None

\* found: the records the card loop accepted; <<>> with cards = FALSE is the
\* early return "No job cards found", which leaves context.jobs alone.
ExtractorExecute(ctx, exc, cards, found) ==
    IF exc
    THEN [raised |-> TRUE, exception |-> TRUE, msg |-> "extractor body error", ctx |-> ctx, result |-> None]
    ELSE IF ~cards
    THEN [raised |-> FALSE, exception |-> FALSE, msg |-> None, ctx |-> ctx,
          result |-> ResultSuccess("No job cards found")]
    ELSE [raised |-> FALSE, exception |-> FALSE, msg |-> None,
          ctx |-> [ctx EXCEPT !.jobs = found],
          result |-> ResultSuccess("Extracted jobs")]

(***************************************************************************)
(* BaseAgent.run                                                           *)
(***************************************************************************)
ErrorEntry(name, msg) == name \o ": " \o msg

\* a variant whose except branch does not record the error in the context
RunDropsException(name, ctx, validation_error, body) ==
    IF validation_error # None
    THEN [ctx |-> ctx,
          result |-> ResultFailed(validation_error, "Context validation failed"),
          executed |-> FALSE, exception |-> FALSE]
    ELSE IF body.raised
    THEN [ctx |-> body.ctx,
          result |-> ResultFailed(body.msg, "Unexpected error"),
          executed |-> TRUE, exception |-> TRUE]
    ELSE IF body.result.status = FAILED
    THEN [ctx |-> add_error(body.ctx, ErrorEntry(name, body.result.error)),
          result |-> body.result, executed |-> TRUE, exception |-> body.exception]
    ELSE [ctx |-> body.ctx, result |-> body.result,
          executed |-> TRUE, exception |-> body.exception]

\* validation_error: validate_context's answer; body: what execute did.
\* The answer holds the context after the call, the result, and whether
\* execute was invoked.
Run(name, ctx, validation_error, body) ==
    IF validation_error # None
    THEN [ctx |-> ctx,
          result |-> ResultFailed(validation_error, "Context validation failed"),
          executed |-> FALSE, exception |-> FALSE]
    ELSE IF body.raised
    THEN [ctx |-> add_error(body.ctx, ErrorEntry(name, body.msg)),
          result |-> ResultFailed(body.msg, "Unexpected error"),
          executed |-> TRUE, exception |-> TRUE]
    ELSE IF body.result.status = FAILED
    THEN [ctx |-> add_error(body.ctx, ErrorEntry(name, body.result.error)),
          result |-> body.result, executed |-> TRUE, exception |-> body.exception]
    ELSE [ctx |-> body.ctx, result |-> body.result,
          executed |-> TRUE, exception |-> body.exception]

(***************************************************************************)
(* AgentOrchestrator                                                       *)
(***************************************************************************)
pipeline == <<"search", "page", "analyzer", "extractor">>

\* a variant that also treats the analyzer as critical
CriticalWithAnalyzer(name) == name \in {"search", "page", "analyzer"}

\* name in ("search", "page")
Critical(name) == name \in {"search", "page"}

NoReturn == [none |-> TRUE]

\* inputs of the model
Keywords == {"", "python", "dev ops"}
Sources == {"", "geekhunter", "vagascombr", "linkedin"}
Metadatas == {[remote_only |-> FALSE], [remote_only |-> TRUE]}
Htmls == {"", "<html>cards</html>"}
JobCards == {None, ".job-card"}
FoundJobs == {<<>>, <<"job1">>, <<"job1", "job2">>}

PipelineIdle ==
    /\ pc = "idle"
    /\ detailed = FALSE
    /\ idx = 1
    /\ context = AgentContext("", "", [remote_only |-> FALSE])
    /\ pipeline_results = <<>>
    /\ calls = <<>>
    /\ returned = NoReturn

\* search(keyword, source, ...) / search_with_details(...): build the context
StartSearch(d, keyword, source, metadata) ==
    /\ pc = "idle"
    /\ pc' = "loop"
    /\ detailed' = d
    /\ idx' = 1
    /\ context' = AgentContext(keyword, source, metadata)
    /\ pipeline_results' = <<>>
    /\ calls' = <<>>
    /\ UNCHANGED returned
    /\ UNCHANGED <<hvars, mvars, later>>

\* a variant of the loop body that tests the break before it appends the
\* trace entry
IterateBreaksBeforeTrace(name, r) ==
    /\ context' = r.ctx
    /\ calls' = Append(calls, [agent |-> name, executed |-> r.executed,
                               exception |-> r.exception,
                               status |-> r.result.status, error |-> r.result.error,
                               before |-> context, after |-> r.ctx])
    /\ pipeline_results' =
          IF detailed /\ ~(r.result.status = FAILED /\ Critical(name))
          THEN Append(pipeline_results,
                      [agent |-> name, status |-> r.result.status,
                       message |-> r.result.message, error |-> r.result.error])
          ELSE pipeline_results
    /\ IF (r.result.status = FAILED /\ Critical(name)) \/ idx = Len(pipeline)
       THEN pc' = "return" /\ idx' = idx
       ELSE pc' = "loop" /\ idx' = idx + 1
    /\ UNCHANGED <<detailed, returned>>
    /\ UNCHANGED <<hvars, mvars, later>>

\* one iteration of the for-loop: result = await agent.run(context), the
\* trace entry (search_with_details), and the break of a critical failure
Iterate(name, r) ==
    /\ context' = r.ctx
    /\ calls' = Append(calls, [agent |-> name, executed |-> r.executed,
                               exception |-> r.exception,
                               status |-> r.result.status, error |-> r.result.error,
                               before |-> context, after |-> r.ctx])
    /\ pipeline_results' =
          IF detailed
          THEN Append(pipeline_results,
                      [agent |-> name, status |-> r.result.status,
                       message |-> r.result.message, error |-> r.result.error])
          ELSE pipeline_results
    /\ IF (r.result.status = FAILED /\ Critical(name)) \/ idx = Len(pipeline)
       THEN pc' = "return" /\ idx' = idx
       ELSE pc' = "loop" /\ idx' = idx + 1
    /\ UNCHANGED <<detailed, returned>>
    /\ UNCHANGED <<hvars, mvars, later>>

RunSearchAgent ==
    /\ pc = "loop" /\ pipeline[idx] = "search"
    /\ \E exc \in BOOLEAN :
          Iterate("search", Run("search", context, SearchValidate(context),
                                SearchExecute(context, exc)))

RunPageAgent ==
    /\ pc = "loop" /\ pipeline[idx] = "page"
    /\ \E failAt \in {"no", "goto", "content", "close"}, html \in Htmls :
          Iterate("page", Run("page", context, PageValidate(context),
                              PageExecute(context, failAt, html)))

RunAnalyzerAgent ==
    /\ pc = "loop" /\ pipeline[idx] = "analyzer"
    /\ \E exc \in BOOLEAN, job_card \in JobCards :
          Iterate("analyzer", Run("analyzer", context, AnalyzerValidate(context),
                                  AnalyzerExecute(context, exc, job_card)))

RunExtractorAgent ==
    /\ pc = "loop" /\ pipeline[idx] = "extractor"
    /\ \E exc \in BOOLEAN, cards \in BOOLEAN, found \in FoundJobs :
          Iterate("extractor", Run("extractor", context, ExtractorValidate(context),
                                   ExtractorExecute(context, exc, cards, found)))

\* return context.jobs, context.errors (search) or the details dict
Return ==
    /\ pc = "return"
    /\ pc' = "done"
    /\ returned' = [jobs |-> context.jobs, errors |-> context.errors,
                    pipeline |-> pipeline_results]
    /\ UNCHANGED <<detailed, idx, context, pipeline_results, calls>>
    /\ UNCHANGED <<hvars, mvars, later>>

(***************************************************************************)
(* HybridScraper                                                           *)
(***************************************************************************)
AI_FALLBACK_THRESHOLD == 3

MaxLimit == 3      \* limit arguments 0..MaxLimit
MaxDet == 3        \* longest list _parse_html returns
MaxAi == 3         \* longest list the oracle's response parses to

\* JobListing: the fields search and _merge_jobs read.  Deterministic records
\* and oracle records differ in their ids.
DetRecords ==
    { [id |-> "geekhunter-0cc1", url |-> "a", title |-> "Dev Python", company |-> "Acme"],
      [id |-> "geekhunter-92eb", url |-> "", title |-> "Ops|Dev", company |-> "Beta"] }
AiRecords ==
    { [id |-> "ai-geekhunter-1", url |-> "a", title |-> "Backend", company |-> "Acme"],
      [id |-> "ai-geekhunter-2", url |-> "c", title |-> "dev python", company |-> "ACME"],
      [id |-> "ai-geekhunter-3", url |-> "", title |-> "Data", company |-> "Acme"],
      [id |-> "ai-geekhunter-4", url |-> "", title |-> "ML", company |-> "Acme"],
      [id |-> "ai-geekhunter-5", url |-> "d", title |-> "SRE", company |-> "Acme"],
      [id |-> "ai-geekhunter-6", url |-> "e", title |-> "ops", company |-> "dev|beta"] }

SeqsUpTo(S, n) == UNION { [1..k -> S] : k \in 0..n }
Limits == 0..MaxLimit

\* str.lower() on the strings of the model
Lower(s) ==
    CASE s = "Dev Python" -> "dev python"
      [] s = "Acme" -> "acme"
      [] s = "ACME" -> "acme"
      [] s = "Ops|Dev" -> "ops|dev"
      [] s = "Beta" -> "beta"
      [] s = "Backend" -> "backend"
      [] s = "Data" -> "data"
      [] s = "ML" -> "ml"
      [] s = "SRE" -> "sre"
      [] OTHER -> s

\* f"{job.title.lower()}|{job.company.lower()}"
Key(job) == Lower(job.title) \o "|" \o Lower(job.company)

\* xs[:n] for n >= 0
Take(xs, n) == SubSeq(xs, 1, IF n < Len(xs) THEN n ELSE Len(xs))

Range(xs) == { xs[i] : i \in 1..Len(xs) }

\* the for-loop of _merge_jobs over the rest of `secondary`
RECURSIVE MergeLoop(_, _, _, _, _)
MergeLoop(acc, seen_urls, seen_keys, rest, lim) ==
    IF rest = <<>> THEN acc
    ELSE LET job == Head(rest)
             key == Key(job)
         IN  IF job.url # "" /\ job.url \in seen_urls
             THEN MergeLoop(acc, seen_urls, seen_keys, Tail(rest), lim)
             ELSE IF key \in seen_keys
             THEN MergeLoop(acc, seen_urls, seen_keys, Tail(rest), lim)
             ELSE LET acc2 == Append(acc, job)
                      urls2 == IF job.url # "" THEN seen_urls \cup {job.url}
                               ELSE seen_urls
                      keys2 == seen_keys \cup {key}
                  IN  IF Len(acc2) >= lim THEN acc2
                      ELSE MergeLoop(acc2, urls2, keys2, Tail(rest), lim)

\* a variant that puts the oracle's records first
MergeJobsSecondaryFirst(prim, sec, lim) ==
    MergeLoop(<<>>, { j.url : j \in { r \in Range(prim) : r.url # "" } },
              { Key(j) : j \in Range(prim) }, sec, lim) \o prim

\* a variant that dedups by URL only
MergeJobsNoKeys(prim, sec, lim) ==
    MergeLoop(prim, { j.url : j \in { r \in Range(prim) : r.url # "" } },
              {}, sec, lim)

\* _merge_jobs(primary, secondary, limit)
MergeJobs(prim, sec, lim) ==
    MergeLoop(prim, { j.url : j \in { r \in Range(prim) : r.url # "" } },
              { Key(j) : j \in Range(prim) }, sec, lim)

\* a variant with <= in the threshold test
NeedsFallbackInclusive(js, en) == Len(js) <= AI_FALLBACK_THRESHOLD /\ en

\* len(jobs) < AI_FALLBACK_THRESHOLD and AI_FALLBACK_ENABLED
NeedsFallback(js, en) == Len(js) < AI_FALLBACK_THRESHOLD /\ en

\* What the oracle answers: text without a JSON array, text whose array is
\* not valid JSON, or an array of items. An item is a record the loop of
\* _parse_ai_response turns into a JobListing, or BadItem, on which the loop
\* raises (a title that is not a string).
BadItem == [bad |-> TRUE]
NoArray == [kind |-> "no_array", items |-> <<>>]
BadJson == [kind |-> "bad_json", items |-> <<>>]
Array(items) == [kind |-> "array", items |-> items]
Responses ==
    {NoArray, BadJson} \cup { Array(items) : items \in SeqsUpTo(AiRecords, MaxAi) }
        \cup { Array(items \o <<BadItem>>) : items \in SeqsUpTo(AiRecords, MaxAi - 1) }

\* the for-loop of _parse_ai_response from item i on; `except Exception`
\* ends it at the first item that raises and the records made so far are
\* returned
RECURSIVE ParseItems(_, _, _)
ParseItems(items, i, jobs_) ==
    IF i > Len(items) \/ items[i] = BadItem THEN jobs_
    ELSE ParseItems(items, i + 1, Append(jobs_, items[i]))

\* _parse_ai_response(content, source)
ParseAiResponse(content) ==
    IF content.kind = "no_array" THEN <<>>
    ELSE IF content.kind = "bad_json" THEN <<>>
    ELSE ParseItems(content.items, 1, <<>>)

\* AgnoJobExtractor.extract_jobs once the client exists: the API call raises
\* (caught, []), or the response is parsed and cut to max_jobs.
ExtractJobs(raises, response, max_jobs) ==
    IF raises THEN <<>> ELSE Take(ParseAiResponse(response), max_jobs)

\* how the oracle step of one _try_ai_extraction call went
OracleOutcome(avail, raises, response) ==
    IF ~avail THEN "unavailable"
    ELSE IF raises THEN "raised"
    ELSE response.kind

\* _try_ai_extraction: [] without calling the oracle when it is unavailable
TryAiExtraction(avail, raises, response, lim) ==
    IF ~avail THEN [jobs |-> <<>>, called |-> 0]
    ELSE [jobs |-> ExtractJobs(raises, response, lim), called |-> 1]

HybridIdle ==
    /\ hpc = "idle" /\ hlimit = 0 /\ enabled = FALSE /\ available = FALSE
    /\ parsed = <<>> /\ ai_jobs = <<>> /\ jobs = <<>>
    /\ oracle_calls = 0 /\ oracle_outcome = None /\ hreturned = NoReturn

MergeIdle ==
    /\ mpc = "call" /\ primary = <<>> /\ secondary = <<>> /\ limit = 0
    /\ merged = <<>>

\* search(keyword, country, limit) is called; en and avail are the process's
\* configuration (ENABLE_AI_FALLBACK, TOGETHER_API_KEY)
HSearch(lim, en, avail) ==
    /\ hpc = "idle"
    /\ hpc' = "fetching"
    /\ hlimit' = lim /\ enabled' = en /\ available' = avail
    /\ UNCHANGED <<parsed, ai_jobs, jobs, oracle_calls, oracle_outcome, hreturned>>
    /\ UNCHANGED <<pvars, mvars, later>>

\* html = await fetcher.fetch(...): returns, or raises out of search
HFetch(ok) ==
    /\ hpc = "fetching"
    /\ hpc' = IF ok THEN "fetched" ELSE "raised"
    /\ UNCHANGED <<hlimit, enabled, available, parsed, ai_jobs, jobs,
                   oracle_calls, oracle_outcome, hreturned>>
    /\ UNCHANGED <<pvars, mvars, later>>

\* jobs = self._parse_html(html, limit)
HParse(det) ==
    /\ hpc = "fetched"
    /\ hpc' = "parsed"
    /\ parsed' = det /\ jobs' = det
    /\ UNCHANGED <<hlimit, enabled, available, ai_jobs, oracle_calls,
                   oracle_outcome, hreturned>>
    /\ UNCHANGED <<pvars, mvars, later>>

\* the fallback test is false: return jobs[:limit]
HReturnDeterministic ==
    /\ hpc = "parsed" /\ ~NeedsFallback(jobs, enabled)
    /\ hpc' = "done"
    /\ hreturned' = Take(jobs, hlimit)
    /\ UNCHANGED <<hlimit, enabled, available, parsed, ai_jobs, jobs, oracle_calls,
                   oracle_outcome>>
    /\ UNCHANGED <<pvars, mvars, later>>

\* _try_ai_extraction and extract_jobs without their `except Exception`
HTryAiPropagates(raises, response) ==
    /\ hpc = "parsed" /\ NeedsFallback(jobs, enabled)
    /\ hpc' = IF available /\ (raises \/ response.kind = "bad_json")
              THEN "raised" ELSE "ai_done"
    /\ LET r == TryAiExtraction(available, raises, response, hlimit)
       IN  /\ ai_jobs' = r.jobs
           /\ oracle_calls' = oracle_calls + r.called
    /\ oracle_outcome' = OracleOutcome(available, raises, response)
    /\ UNCHANGED <<hlimit, enabled, available, parsed, jobs, hreturned>>
    /\ UNCHANGED <<pvars, mvars, later>>

\* ai_jobs = await self._try_ai_extraction(html, limit)
HTryAi(raises, response) ==
    /\ hpc = "parsed" /\ NeedsFallback(jobs, enabled)
    /\ hpc' = "ai_done"
    /\ LET r == TryAiExtraction(available, raises, response, hlimit)
       IN  /\ ai_jobs' = r.jobs
           /\ oracle_calls' = oracle_calls + r.called
    /\ oracle_outcome' = OracleOutcome(available, raises, response)
    /\ UNCHANGED <<hlimit, enabled, available, parsed, jobs, hreturned>>
    /\ UNCHANGED <<pvars, mvars, later>>

\* if ai_jobs: jobs = self._merge_jobs(jobs, ai_jobs, limit); return jobs[:limit]
HMergeReturn ==
    /\ hpc = "ai_done"
    /\ hpc' = "done"
    /\ jobs' = IF ai_jobs # <<>> THEN MergeJobs(jobs, ai_jobs, hlimit) ELSE jobs
    /\ hreturned' = Take(jobs', hlimit)
    /\ UNCHANGED <<hlimit, enabled, available, parsed, ai_jobs, oracle_calls,
                   oracle_outcome>>
    /\ UNCHANGED <<pvars, mvars, later>>

HybridNext ==
    \/ \E lim \in Limits, en \in BOOLEAN, avail \in BOOLEAN : HSearch(lim, en, avail)
    \/ \E ok \in BOOLEAN : HFetch(ok)
    \/ \E det \in SeqsUpTo(DetRecords, MaxDet) : HParse(det)
    \/ HReturnDeterministic
    \/ \E raises \in BOOLEAN, response \in Responses :
          HTryAi(raises, response)
    \/ HMergeReturn

HybridInit == PipelineIdle /\ HybridIdle /\ MergeIdle /\ LaterIdle

HybridSpec == HybridInit /\ [][HybridNext]_vars

(***************************************************************************)
(* _merge_jobs called on its own                                           *)
(***************************************************************************)
MergeInit ==
    /\ PipelineIdle /\ HybridIdle /\ LaterIdle
    /\ mpc = "call"
    /\ primary \in SeqsUpTo(DetRecords, MaxDet)
    /\ secondary \in SeqsUpTo(AiRecords, MaxAi)
    /\ limit \in Limits
    /\ merged = <<>>

CallMergeJobs ==
    /\ mpc = "call"
    /\ mpc' = "returned"
    /\ merged' = MergeJobs(primary, secondary, limit)
    /\ UNCHANGED <<primary, secondary, limit>>
    /\ UNCHANGED <<pvars, hvars, later>>

MergeNext == CallMergeJobs

MergeSpec == MergeInit /\ [][MergeNext]_vars

(***************************************************************************)
(* Specification of the agent pipeline                                     *)
(***************************************************************************)
PipelineNext ==
    \/ \E d \in BOOLEAN, k \in Keywords, s \in Sources, m \in Metadatas :
          StartSearch(d, k, s, m)
    \/ RunSearchAgent
    \/ RunPageAgent
    \/ RunAnalyzerAgent
    \/ RunExtractorAgent
    \/ Return

PipelineInit == PipelineIdle /\ HybridIdle /\ MergeIdle /\ LaterIdle

PipelineSpec == PipelineInit /\ [][PipelineNext]_vars

(***************************************************************************)
(* Properties of the agent pipeline (checked under PipelineSpec)           *)
(***************************************************************************)
CallIdx == 1..Len(calls)
Finished == pc \in {"return", "done"}
HasPrefix(s, p) == Len(s) >= Len(p) /\ SubSeq(s, 1, Len(p)) = p
\* an error-list entry that names the stage
NamesStage(e, name) == HasPrefix(e, name \o ": ")
\* the inputs of the run fail the search stage's validation
BadSearchInput ==
    context.keyword = "" \/ context.source = "" \/ context.source \notin SOURCE_CONFIGS
NonEmpty(x) == x # None /\ x # ""

\* C1: a run whose input fails the search stage's validation returns zero
\* records and an error list of exactly one entry, which names the search
\* stage, and runs no stage after search.
C1_SearchValidationReported ==
    (pc = "done" /\ BadSearchInput) =>
        /\ returned.jobs = <<>>
        /\ Len(returned.errors) = 1
        /\ NamesStage(returned.errors[1], "search")
        /\ Len(calls) = 1

\* C2: when the analyzer completes without a job_card selector, the
\* extractor stage is still run, fails its precondition check, and the
\* returned error list holds an entry reported by the extractor.
C2_ExtractorFailureReported ==
    (pc = "done" /\ Len(calls) >= 3 /\ calls[3].status = SUCCESS
        /\ ~NonEmpty(DictGet(context.detected_selectors, "job_card"))) =>
        /\ Len(calls) = 4
        /\ calls[4].status = FAILED /\ ~calls[4].executed
        /\ \E i \in 1..Len(returned.errors) : NamesStage(returned.errors[i], "extractor")

\* C3: every stage that ended failed has an entry in the returned error list.
C3_EveryFailureReported ==
    pc = "done" =>
        \A i \in CallIdx :
            calls[i].status = FAILED =>
                \E j \in 1..Len(returned.errors) :
                    NamesStage(returned.errors[j], calls[i].agent)

\* C4: the stages run in the order search, page, analyzer, extractor, each at
\* most once; a failed search or page stage is the last stage run and the
\* context's records and errors are what is returned; otherwise all four
\* stages run, so a failed analyzer does not keep the extractor from running.
C4_StageOrderAndCriticality ==
    /\ Len(calls) <= Len(pipeline)
    /\ \A i \in CallIdx : calls[i].agent = pipeline[i]
    /\ \A i \in CallIdx :
          (calls[i].status = FAILED /\ calls[i].agent \in {"search", "page"}) =>
              (i = Len(calls) /\ Finished)
    /\ Finished =>
          \/ Len(calls) = Len(pipeline)
          \/ /\ Len(calls) >= 1
             /\ calls[Len(calls)].status = FAILED
             /\ calls[Len(calls)].agent \in {"search", "page"}
    /\ pc = "done" =>
          /\ returned.jobs = calls[Len(calls)].after.jobs
          /\ returned.errors = calls[Len(calls)].after.errors

C4_Witness ==
    /\ pc = "done" /\ Len(calls) = 4
    /\ calls[3].status = FAILED /\ calls[3].agent = "analyzer"
    /\ calls[4].agent = "extractor"

\* the trace a finished search_with_details call returned
Trace == returned.pipeline
TraceReturned == pc = "done" /\ detailed

\* C22: the trace search_with_details returns holds one entry per stage that
\* was run, in execution order, each with status success, failed or skipped;
\* it has four entries unless the search or the page stage failed, and then
\* its last entry is that failed stage.
C22_TraceOfStagesRun ==
    TraceReturned =>
        /\ Len(Trace) = Len(calls)
        /\ \A i \in 1..Len(Trace) :
              /\ Trace[i].agent = pipeline[i]
              /\ Trace[i].agent = calls[i].agent
              /\ Trace[i].status = calls[i].status
              /\ Trace[i].status \in {SUCCESS, FAILED, SKIPPED}
        /\ LET critical_failed ==
                  { i \in 1..Len(Trace) :
                      Trace[i].status = FAILED /\ Trace[i].agent \in {"search", "page"} }
           IN  IF critical_failed = {}
               THEN /\ Len(Trace) = 4
                    /\ \A i \in CallIdx :
                          calls[i].status = FAILED => calls[i].agent \notin {"search", "page"}
               ELSE critical_failed = {Len(Trace)}

\* a detailed run whose page stage failed: the trace ends with that stage
C22_Witness ==
    /\ TraceReturned /\ Len(Trace) = 2
    /\ Trace[1].agent = "search" /\ Trace[1].status = SUCCESS
    /\ Trace[2].agent = "page" /\ Trace[2].status = FAILED

\* the inputs each stage's body needs, read off the context before the call
BodyInputsPresent(name, ctx) ==
    CASE name = "search" ->
            NonEmpty(ctx.keyword) /\ ctx.source \in {"geekhunter", "vagascombr"}
      [] name = "page" -> NonEmpty(ctx.search_url)
      [] name = "analyzer" -> NonEmpty(ctx.html_content)
      [] name = "extractor" ->
            /\ NonEmpty(ctx.html_content)
            /\ NonEmpty(DictGet(ctx.detected_selectors, "job_card"))

\* C5: a stage's body is invoked only if the context held the inputs the
\* stage requires; otherwise the stage ends failed, its body is not invoked
\* and the context's records are unchanged.
C5_BodyOnlyAfterValidation ==
    \A i \in CallIdx :
        /\ calls[i].executed => BodyInputsPresent(calls[i].agent, calls[i].before)
        /\ ~BodyInputsPresent(calls[i].agent, calls[i].before) =>
              /\ ~calls[i].executed
              /\ calls[i].status = FAILED
              /\ calls[i].after.jobs = calls[i].before.jobs

C5_Witness ==
    /\ Len(calls) = 4
    /\ NonEmpty(calls[4].before.html_content)
    /\ ~NonEmpty(DictGet(calls[4].before.detected_selectors, "job_card"))
    /\ ~calls[4].executed /\ calls[4].status = FAILED

\* C6: an exception raised inside a stage body becomes a failed outcome with
\* exactly one entry "<stage>: <message>" appended to the context's errors;
\* the run goes on to return (after search/page) or to the next stage (after
\* analyzer/extractor), so nothing propagates to the caller.
C6_ExceptionBecomesFailure ==
    /\ \A i \in CallIdx :
          calls[i].exception =>
              /\ calls[i].status = FAILED
              /\ calls[i].after.errors =
                    Append(calls[i].before.errors,
                           ErrorEntry(calls[i].agent, calls[i].error))
              /\ calls[i].agent \in {"search", "page"} => (i = Len(calls) /\ Finished)
              /\ calls[i].agent = "analyzer" => (Len(calls) = 4 \/ pc = "loop")
              /\ calls[i].agent = "extractor" => Finished
    /\ pc = "loop" => ENABLED (RunSearchAgent \/ RunPageAgent
                               \/ RunAnalyzerAgent \/ RunExtractorAgent)
    /\ pc = "return" => ENABLED Return

C6_Witness ==
    /\ pc = "done" /\ Len(calls) = 4
    /\ calls[3].exception /\ calls[3].agent = "analyzer"
    /\ returned.errors = <<"analyzer: analyzer body error">>

(***************************************************************************)
(* Properties of HybridScraper.search (checked under HybridSpec)           *)
(***************************************************************************)
\* C7: with the oracle enabled and available, a deterministic parse of at
\* least AI_FALLBACK_THRESHOLD records never leads to an oracle call, and a
\* smaller one leads to exactly one call by the time search returns.
C7_FallbackGating ==
    /\ oracle_calls <= 1
    /\ (enabled /\ available /\ hpc \in {"parsed", "ai_done", "done"}
          /\ Len(parsed) >= AI_FALLBACK_THRESHOLD) => oracle_calls = 0
    /\ (enabled /\ available /\ hpc = "done"
          /\ Len(parsed) < AI_FALLBACK_THRESHOLD) => oracle_calls = 1

C7_Witness ==
    /\ hpc = "done" /\ enabled /\ available
    /\ Len(parsed) = AI_FALLBACK_THRESHOLD - 1
    /\ oracle_calls = 1

\* C8: when the deterministic parse returned at most limit records, the list
\* search returns begins with exactly those records in their order, and every
\* record after them is one of the oracle's; the merge itself keeps the
\* deterministic records as the head of `jobs` whatever the limit.
C8_DeterministicPrefix ==
    hpc = "done" =>
        /\ Len(jobs) >= Len(parsed)
        /\ SubSeq(jobs, 1, Len(parsed)) = parsed
        /\ Len(parsed) <= hlimit =>
              /\ Len(hreturned) >= Len(parsed)
              /\ SubSeq(hreturned, 1, Len(parsed)) = parsed
              /\ \A i \in (Len(parsed) + 1)..Len(hreturned) :
                    hreturned[i] \in Range(ai_jobs) /\ hreturned[i] \notin DetRecords

C8_Witness ==
    /\ hpc = "done"
    /\ Len(parsed) = 2 /\ parsed[1] # parsed[2]
    /\ Len(hreturned) = 3

(***************************************************************************)
(* Properties of _merge_jobs (checked under MergeSpec)                     *)
(***************************************************************************)
Appended == (Len(primary) + 1)..Len(merged)

\* secondary[n] is new: its key differs from the primary record's and from
\* the other secondary records', and so does its URL
NewInExample(n) ==
    /\ secondary[n].url # "" /\ secondary[n].url # primary[1].url
    /\ Key(secondary[n]) # Key(primary[1])
    /\ \A m \in (1..3) \ {n} :
          /\ secondary[m].url # secondary[n].url
          /\ Key(secondary[m]) # Key(secondary[n])

\* one deterministic record with a URL; an oracle list of one record with
\* that URL and two new records
MergeExample ==
    /\ Len(primary) = 1 /\ primary[1].url # ""
    /\ Len(secondary) = 3
    /\ \E d \in 1..3 :
          /\ secondary[d].url = primary[1].url
          /\ \A n \in (1..3) \ {d} : NewInExample(n)

\* C9 (as claimed): every appended oracle record has a URL and a
\* title|company key that differ from those of every record before it in the
\* merged list; the example merge yields exactly 3 records.
C9_AppendedDiffer ==
    mpc = "returned" =>
        /\ \A i \in Appended : \A j \in 1..(i - 1) :
              /\ merged[i].url # merged[j].url
              /\ Key(merged[i]) # Key(merged[j])
        /\ MergeExample => Len(merged) = 3

\* C9 (amended): every appended oracle record has a title|company key that
\* differs from that of every record before it, and its URL, when it has
\* one, differs from theirs; the example merge yields exactly 3 records when
\* limit is at least 3.
C9_AppendedDifferAmended ==
    mpc = "returned" =>
        /\ \A i \in Appended : \A j \in 1..(i - 1) :
              /\ merged[i].url # "" => merged[i].url # merged[j].url
              /\ Key(merged[i]) # Key(merged[j])
        /\ (MergeExample /\ limit >= 3) => Len(merged) = 3

C9_Witness ==
    /\ mpc = "returned" /\ MergeExample /\ limit >= 3
    /\ Len(merged) = 3

MaxOf(a, b) == IF a >= b THEN a ELSE b

\* C10: the merged list has at most max(limit, number of deterministic
\* records) entries: nothing is appended to a list that already holds limit
\* or more records.
C10_MergeCap ==
    mpc = "returned" => Len(merged) <= MaxOf(limit, Len(primary))

\* the oracle has no credentials, or its step raised, or its output held no
\* JSON array or an array that is not valid JSON
OracleFailed ==
    \/ hpc # "idle" /\ ~available
    \/ oracle_outcome \in {"unavailable", "raised", "no_array", "bad_json"}

JS_REQUIRED_DOMAINS == {"geekhunter.com.br", "vagas.com.br", "catho.com.br", "99jobs.com"}

\* the urls fetch is called with
Urls == { "https://www.geekhunter.com.br/vagas?search=python",
          "https://vagas.com.br/vagas-de-python",
          "https://WWW.Catho.com.br/vagas",
          "http://99jobs.com",
          "https://jobs.vagas.com.br/x",
          "https://www.example.com/jobs",
          "https://example.com/www.vagas.com.br" }

\* first position >= i at which one of the strings in `stops` begins in s,
\* Len(s) + 1 when there is none
RECURSIVE FindFrom(_, _, _)
FindFrom(s, i, stops) ==
    IF i > Len(s) THEN Len(s) + 1
    ELSE IF \E t \in stops : i + Len(t) - 1 <= Len(s) /\ SubSeq(s, i, i + Len(t) - 1) = t
         THEN i
         ELSE FindFrom(s, i + 1, stops)

\* urlparse(url).netloc: what stands between "//" after the scheme and the
\* next "/", "?" or "#"; empty when the url has no "//"
Netloc(url) ==
    LET c == FindFrom(url, 1, {":"})
    IN  IF c + 2 <= Len(url) /\ SubSeq(url, c + 1, c + 2) = "//"
        THEN SubSeq(url, c + 3, FindFrom(url, c + 3, {"/", "?", "#"}) - 1)
        ELSE ""

\* str.lower() on the network locations of Urls
LowerDomain(s) ==
    CASE s = "WWW.Catho.com.br" -> "www.catho.com.br"
      [] OTHER -> s

\* _domain_requires_js
DomainRequiresJsNoStrip(url) == LowerDomain(Netloc(url)) \in JS_REQUIRED_DOMAINS
DomainRequiresJs(url) ==
    LET domain == LowerDomain(Netloc(url))
        stripped == IF HasPrefix(domain, "www.") THEN SubSeq(domain, 5, Len(domain))
                    ELSE domain
    IN  stripped \in JS_REQUIRED_DOMAINS

\* A page as the heuristic sees it: its text nodes, each with the tag that
\* holds it and the number of characters it adds to get_text, and the
\* marker-like substrings of the raw markup.
Node(tag, chars) == [tag |-> tag, chars |-> chars]
Page(nodes, raw) == [nodes |-> nodes, raw |-> raw]

TextThreshold == 500
SpaTextThreshold == 1000
spa_indicators == {"React", "__NEXT_DATA__", "ng-app", "data-reactroot", "id=\"app\"",
                   "id=\"root\"", "id=\"__next\"", "loading...", "carregando..."}

\* str.lower() on the indicators and on the raw substrings of HttpPages
LowerMarker(s) ==
    CASE s = "React" -> "react"
      [] s = "REACT" -> "react"
      [] s = "__NEXT_DATA__" -> "__next_data__"
      [] s = "Loading..." -> "loading..."
      [] OTHER -> s

RECURSIVE TextLen(_, _)
\* len(text) after the nodes under the tags in `removed` are decomposed
TextLen(nodes, removed) ==
    IF nodes = <<>> THEN 0
    ELSE (IF Head(nodes).tag \in removed THEN 0 ELSE Head(nodes).chars)
         + TextLen(Tail(nodes), removed)

HasIndicator(html) ==
    \E indicator \in spa_indicators, r \in html.raw : LowerMarker(indicator) = LowerMarker(r)

\* _html_needs_js
HtmlNeedsJsIgnoresMarkers(html) ==
    TextLen(html.nodes, {"script", "style", "noscript"}) < TextThreshold
HtmlNeedsJs(html) ==
    LET text_len == TextLen(html.nodes, {"script", "style", "noscript"})
    IN  IF text_len < TextThreshold THEN TRUE
        ELSE HasIndicator(html) /\ text_len < SpaTextThreshold

\* the pages the lightweight fetch answers with
HttpPages ==
    { Page(<<Node("p", 1200)>>, {}),
      Page(<<Node("p", 200)>>, {}),
      Page(<<Node("p", 499)>>, {}),
      Page(<<Node("p", 500)>>, {}),
      Page(<<Node("p", 450), Node("noscript", 100)>>, {}),
      Page(<<Node("p", 450), Node("script", 5000), Node("style", 300)>>, {}),
      Page(<<Node("p", 700)>>, {"__NEXT_DATA__"}),
      Page(<<Node("p", 999)>>, {"REACT"}),
      Page(<<Node("p", 1000)>>, {"Loading..."}),
      Page(<<Node("p", 700)>>, {"jquery"}) }
Statuses == {200, 404}
HttpErrors == {"ConnectError", "ReadTimeout"}
RenderErrors == {"TimeoutError", "BrowserClosed"}
\* the markup page.content() hands back
Rendered == Page(<<Node("rendered", 5000)>>, {})

HttpReturned(html, status) == [raised |-> None, html |-> html, status |-> status]
HttpRaised(e) == [raised |-> e, html |-> Page(<<>>, {}), status |-> 0]
\* an error of fetch_with_playwright, told apart by the call that raised it
RenderError(e, n) == [kind |-> e, call |-> n]

\* fetch(url, force_js): lines 195-199, up to the first await
FetchCall(url, force) ==
    /\ fpc = "idle"
    /\ furl' = url /\ force_js' = force
    /\ fpc' = IF force \/ DomainRequiresJs(url) THEN "render_direct" ELSE "http"
    /\ UNCHANGED <<http_outcome, http_calls, render_calls, render_errors,
                   fetched, fetch_error>>
    /\ UNCHANGED notF

\* return await self.fetch_with_playwright(...) of line 199, outside the try
FRenderDirect(raises, e) ==
    /\ fpc = "render_direct"
    /\ render_calls' = render_calls + 1
    /\ IF raises
       THEN /\ render_errors' = Append(render_errors, RenderError(e, render_calls'))
            /\ fetch_error' = <<RenderError(e, render_calls')>>
            /\ fpc' = "failed"
            /\ UNCHANGED fetched
       ELSE /\ fetched' = <<Rendered>>
            /\ fpc' = "done"
            /\ UNCHANGED <<render_errors, fetch_error>>
    /\ UNCHANGED <<furl, force_js, http_outcome, http_calls>>
    /\ UNCHANGED notF

\* variant: what fetch_with_http raises leaves fetch
FHttpPropagates(out) ==
    /\ fpc = "http"
    /\ http_calls' = http_calls + 1
    /\ http_outcome' = <<out>>
    /\ IF out.raised # None
       THEN fpc' = "failed" /\ fetch_error' = <<RenderError(out.raised, 0)>> /\ UNCHANGED fetched
       ELSE IF out.status # 200 \/ HtmlNeedsJs(out.html)
            THEN fpc' = "render_try" /\ UNCHANGED <<fetched, fetch_error>>
            ELSE fpc' = "done" /\ fetched' = <<out.html>> /\ UNCHANGED fetch_error
    /\ UNCHANGED <<furl, force_js, render_calls, render_errors>>
    /\ UNCHANGED notF

\* html, status = await self.fetch_with_http(url) and the tests of lines
\* 206-216 on what it returned; an exception goes to the handler of line 218
FHttp(out) ==
    /\ fpc = "http"
    /\ http_calls' = http_calls + 1
    /\ http_outcome' = <<out>>
    /\ IF out.raised # None THEN fpc' = "render_final" /\ UNCHANGED fetched
       ELSE IF out.status # 200 THEN fpc' = "render_try" /\ UNCHANGED fetched
       ELSE IF HtmlNeedsJs(out.html) THEN fpc' = "render_try" /\ UNCHANGED fetched
       ELSE fpc' = "done" /\ fetched' = <<out.html>>
    /\ UNCHANGED <<furl, force_js, render_calls, render_errors, fetch_error>>
    /\ UNCHANGED notF

\* return await self.fetch_with_playwright(...) of lines 208 and 213: inside
\* the try, so what it raises is caught by the handler of line 218
FRenderInTry(raises, e) ==
    /\ fpc = "render_try"
    /\ render_calls' = render_calls + 1
    /\ IF raises
       THEN /\ render_errors' = Append(render_errors, RenderError(e, render_calls'))
            /\ fpc' = "render_final"
            /\ UNCHANGED fetched
       ELSE /\ fetched' = <<Rendered>>
            /\ fpc' = "done"
            /\ UNCHANGED render_errors
    /\ UNCHANGED <<furl, force_js, http_outcome, http_calls, fetch_error>>
    /\ UNCHANGED notF

\* except Exception: return await self.fetch_with_playwright(...) of line 220
FRenderFinal(raises, e) ==
    /\ fpc = "render_final"
    /\ render_calls' = render_calls + 1
    /\ IF raises
       THEN /\ render_errors' = Append(render_errors, RenderError(e, render_calls'))
            /\ fetch_error' = <<RenderError(e, render_calls')>>
            /\ fpc' = "failed"
            /\ UNCHANGED fetched
       ELSE /\ fetched' = <<Rendered>>
            /\ fpc' = "done"
            /\ UNCHANGED <<render_errors, fetch_error>>
    /\ UNCHANGED <<furl, force_js, http_outcome, http_calls>>
    /\ UNCHANGED notF

HttpOutcomes ==
    { HttpReturned(h, st) : h \in HttpPages, st \in Statuses }
    \cup { HttpRaised(e) : e \in HttpErrors }

FetchNext ==
    \/ \E url \in Urls, force \in BOOLEAN : FetchCall(url, force)
    \/ \E raises \in BOOLEAN, e \in RenderErrors : FRenderDirect(raises, e)
    \/ \E out \in HttpOutcomes : FHttp(out)
    \/ \E raises \in BOOLEAN, e \in RenderErrors : FRenderInTry(raises, e)
    \/ \E raises \in BOOLEAN, e \in RenderErrors : FRenderFinal(raises, e)

FetchInit ==
    PipelineIdle /\ HybridIdle /\ MergeIdle /\ LaterIdleExcept("fetch") /\ FetchIdle

FetchSpec == FetchInit /\ [][FetchNext]_vars

(***************************************************************************)
(* Properties of AdaptiveFetcher.fetch (checked under FetchSpec)           *)
(***************************************************************************)
FetchOver == fpc \in {"done", "failed"}

\* the url's network location, lower-cased, is an allowlisted domain or
\* "www." followed by one
OnAllowlist(url) ==
    \E d \in JS_REQUIRED_DOMAINS : LowerDomain(Netloc(url)) \in {d, "www." \o d}

LightweightSucceeded ==
    /\ FetchOver /\ ~force_js /\ ~OnAllowlist(furl)
    /\ http_outcome # <<>>
    /\ http_outcome[1].raised = None /\ http_outcome[1].status = 200

\* the heuristic of the claim, on a text measured with the tags in `removed` taken out
Escalates(html, removed) ==
    LET visible == TextLen(html.nodes, removed)
    IN  \/ visible < TextThreshold
        \/ visible < SpaTextThreshold /\ HasIndicator(html)

EscalationFollows(removed) ==
    LightweightSucceeded =>
        IF Escalates(http_outcome[1].html, removed)
        THEN render_calls >= 1 /\ fetched # <<http_outcome[1].html>>
        ELSE render_calls = 0 /\ fetched = <<http_outcome[1].html>>

LightweightRaised == http_outcome # <<>> /\ http_outcome[1].raised # None

\* C13: when the lightweight fetch raises, the call goes on to the render
\* path; a call fails only with the error its last render attempt raised,
\* never with an error of the lightweight fetch.
C13_FailsOnlyWithLastRender ==
    /\ LightweightRaised =>
          /\ fpc \in {"render_final", "done", "failed"}
          /\ FetchOver => render_calls >= 1
    /\ (fpc = "failed") <=> (fetch_error # <<>>)
    /\ fetch_error # <<>> =>
          /\ render_errors # <<>>
          /\ fetch_error[1] = render_errors[Len(render_errors)]
          /\ fetch_error[1].call = render_calls
          /\ fetch_error[1].kind \notin HttpErrors

\* the lightweight fetch timed out and the render that followed failed: the
\* call failed with the render's error
C13_Witness ==
    /\ fpc = "failed" /\ LightweightRaised
    /\ http_outcome[1].raised = "ReadTimeout"
    /\ fetch_error = <<RenderError("BrowserClosed", 1)>>

\* C29: one fetch call invokes the render path (fetch_with_playwright) at
\* most once, whichever branch of the decision it takes.
C29_RendersAtMostOnce == render_calls <= 1

(***************************************************************************)
(* Record extraction from the cards of a page: ExtractorAgent.execute      *)
(* (agents/extractor_agent.py) and the _parse_html of the GeekHunter and   *)
(* Vagas.com.br scrapers                                                   *)
(***************************************************************************)
BASE_URLS == [geekhunter |-> "https://www.geekhunter.com.br",
              vagascombr |-> "https://www.vagas.com.br"]

\* A container as the extractors see it: its tag, the href of its link (None
\* when it holds no link), the text of its title element or title attribute
\* (None when it has none) and the text of its link.
Card(tag, href, title, link_text) ==
    [tag |-> tag, href |-> href, title |-> title, link_text |-> link_text]

Cards ==
    { Card("div", "/vagas/1", "Python Developer", "Ver vaga"),
      Card("div", "https://www.geekhunter.com.br/vagas/1", "Senior Python Developer", ""),
      Card("a", "https://www.geekhunter.com.br/vagas/1", "Dev", "QA"),
      Card("a", "/vagas/2", None, "Backend Engineer"),
      Card("div", "/vagas/3", "Dev", "Data Engineer (remote)"),
      Card("div", None, "Cloud Architect", ""),
      Card("a", "", "", "Empty link") }

MaxCards == 4
MaxExtractLimit == 2

\* hashlib.md5(url.encode()).hexdigest()[:12] on the urls the cards resolve to
Md5Hex12(url) ==
    CASE url = "https://www.geekhunter.com.br/vagas/1" -> "98fc705f56dc"
      [] url = "https://www.geekhunter.com.br/vagas/2" -> "f64cc1d14a1d"
      [] url = "https://www.geekhunter.com.br/vagas/3" -> "0f99e032c8da"
      [] url = "https://www.vagas.com.br/vagas/1" -> "1a710f42f005"
      [] url = "https://www.vagas.com.br/vagas/2" -> "82328446b256"
      [] url = "https://www.vagas.com.br/vagas/3" -> "39fb885cc0ae"

\* ExtractorAgent._generate_id
GenerateId(source, url) == source \o "-" \o Md5Hex12(url)

\* if not url.startswith("http"): url = f"{base_url}{url}"
MakeAbsolute(base_url, url) ==
    IF HasPrefix(url, "http") THEN url ELSE base_url \o url

\* ExtractorAgent._extract_url: None without a link or with an empty href
ExtractUrl(card, base_url) ==
    IF card.href = None \/ card.href = "" THEN None
    ELSE MakeAbsolute(base_url, card.href)

\* the JobListing fields the extractors' control flow decides
Job(id, source, title, url) == [id |-> id, source |-> source, title |-> title, url |-> url]

\* ExtractorAgent._extract_job with the title taken as it comes
ExtractJobNoTitleCheck(card, source, seen_urls) ==
    LET url == ExtractUrl(card, BASE_URLS[source])
    IN  IF url = None \/ url \in seen_urls THEN <<>>
        ELSE <<Job(GenerateId(source, url), source,
                   IF card.title = None THEN card.link_text ELSE card.title, url)>>

\* ExtractorAgent._extract_job without the test of seen_urls
ExtractJobNoSeen(card, source, seen_urls) ==
    LET url == ExtractUrl(card, BASE_URLS[source])
        text == IF card.title = None \/ card.title = "" THEN None ELSE card.title
        title == IF text = None \/ Len(text) < 5 THEN card.link_text ELSE text
    IN  IF url = None THEN <<>>
        ELSE IF title = "" \/ Len(title) < 5 THEN <<>>
        ELSE <<Job(GenerateId(source, url), source, title, url)>>

\* ExtractorAgent._extract_job: <<>> when the container is skipped (return
\* None), <<job>> otherwise
ExtractJob(card, source, seen_urls) ==
    LET url == ExtractUrl(card, BASE_URLS[source])
        \* _extract_text: None without an element or with an empty text
        text == IF card.title = None \/ card.title = "" THEN None ELSE card.title
        \* past the url test the container has a link, whose text replaces
        \* a missing or short title
        title == IF text = None \/ Len(text) < 5 THEN card.link_text ELSE text
    IN  IF url = None \/ url \in seen_urls THEN <<>>
        ELSE IF title = "" \/ Len(title) < 5 THEN <<>>
        ELSE <<Job(GenerateId(source, url), source, title, url)>>

RECURSIVE ExtractLoop(_, _, _, _, _, _)
\* the for-loop of ExtractorAgent.execute over cards_to_process
ExtractLoop(cards, source, lim, jobs_, seen_urls, examined) ==
    IF cards = <<>> THEN [jobs |-> jobs_, examined |-> examined]
    ELSE LET job == ExtractJob(Head(cards), source, seen_urls)
         IN  IF job = <<>>
             THEN ExtractLoop(Tail(cards), source, lim, jobs_, seen_urls, examined + 1)
             ELSE IF Len(jobs_) + 1 >= lim
                  THEN [jobs |-> jobs_ \o job, examined |-> examined + 1]
                  ELSE ExtractLoop(Tail(cards), source, lim, jobs_ \o job,
                                   seen_urls \cup {job[1].url}, examined + 1)

\* ExtractorAgent.execute without the break at limit
ExtractorAgentExecuteNoBreak(cards, source, lim) ==
    ExtractLoop(Take(cards, lim * 2), source, Len(cards) + 1, <<>>, {}, 0)

\* ExtractorAgent.execute: context.jobs is left alone when no card is found
ExtractorAgentExecute(cards, source, lim) ==
    IF cards = <<>> THEN [jobs |-> <<>>, examined |-> 0]
    ELSE ExtractLoop(Take(cards, lim * 2), source, lim, <<>>, {}, 0)

\* BaseScraper.generate_id, as the scrapers' tests show it
ScraperGenerateId(name, job_id) == name \o "-" \o job_id

\* 'needle in s'
Contains(s, needle) == FindFrom(s, 1, {needle}) <= Len(s)

RECURSIVE GeekHunterLoop(_, _, _)
\* the for-loop of GeekHunterScraper._parse_html
GeekHunterLoop(cards, jobs_, seen_urls) ==
    IF cards = <<>> THEN jobs_
    ELSE LET card == Head(cards)
             \* card if card.name == "a" else card.select_one('a[href*="/vagas/"]')
             has_link == \/ card.tag = "a"
                         \/ card.href # None /\ Contains(card.href, "/vagas/")
             href == IF card.href = None THEN "" ELSE card.href
             url == MakeAbsolute(BASE_URLS.geekhunter, href)
             title == IF card.title # None THEN card.title ELSE card.link_text
         IN  IF ~has_link \/ href = "" \/ href \in seen_urls
             THEN GeekHunterLoop(Tail(cards), jobs_, seen_urls)
             ELSE IF title = "" \/ Len(title) < 5
             THEN GeekHunterLoop(Tail(cards), jobs_, seen_urls \cup {url})
             ELSE GeekHunterLoop(Tail(cards),
                                 Append(jobs_, Job(ScraperGenerateId("geekhunter", Md5Hex12(url)),
                                                   "geekhunter", title, url)),
                                 seen_urls \cup {url})

\* GeekHunterScraper._parse_html without the final slice
GeekHunterParseHtmlNoSlice(cards, lim) == GeekHunterLoop(Take(cards, lim * 2), <<>>, {})

\* GeekHunterScraper._parse_html on the cards its selectors matched
GeekHunterParseHtml(cards, lim) ==
    Take(GeekHunterLoop(Take(cards, lim * 2), <<>>, {}), lim)

RECURSIVE VagasLoop(_, _, _)
\* the for-loop of VagasComBrScraper._parse_html over the a.link-detalhes-vaga links
VagasLoop(cards, jobs_, seen_urls) ==
    IF cards = <<>> THEN jobs_
    ELSE LET card == Head(cards)
             href == IF card.href = None THEN "" ELSE card.href
             \* link.get("title", "") or link.get_text(strip=True)
             title == IF card.title = None \/ card.title = "" THEN card.link_text
                      ELSE card.title
             url == MakeAbsolute(BASE_URLS.vagascombr, href)
         IN  IF href = "" \/ title = "" \/ href \in seen_urls
             THEN VagasLoop(Tail(cards), jobs_, seen_urls)
             ELSE VagasLoop(Tail(cards),
                            Append(jobs_, Job(ScraperGenerateId("vagascombr", Md5Hex12(url)),
                                              "vagascombr", title, url)),
                            seen_urls \cup {url})

\* VagasComBrScraper._parse_html
VagasParseHtml(cards, lim) == Take(VagasLoop(Take(cards, lim * 2), <<>>, {}), lim)

ExtractLimits == 0..MaxExtractLimit

\* the page's cards and the limit of the call
ExtractInit ==
    /\ PipelineIdle /\ HybridIdle /\ MergeIdle /\ LaterIdleExcept("extract")
    /\ xpc = "input"
    /\ xcards \in SeqsUpTo(Cards, MaxCards)
    /\ xlimit \in ExtractLimits
    /\ xwho = None /\ xsource = None /\ xjobs = <<>> /\ xexamined = 0

\* ExtractorAgent.execute(context) with context.source = source
RunExtractorExecute(source) ==
    /\ xpc = "input"
    /\ xpc' = "done" /\ xwho' = "extractor" /\ xsource' = source
    /\ LET r == ExtractorAgentExecute(xcards, source, xlimit)
       IN  xjobs' = r.jobs /\ xexamined' = r.examined
    /\ UNCHANGED <<xcards, xlimit>>
    /\ UNCHANGED notX

\* GeekHunterScraper._parse_html(html, limit)
RunGeekHunterParse ==
    /\ xpc = "input"
    /\ xpc' = "done" /\ xwho' = "geekhunter" /\ xsource' = "geekhunter"
    /\ xjobs' = GeekHunterParseHtml(xcards, xlimit)
    /\ xexamined' = Len(Take(xcards, xlimit * 2))
    /\ UNCHANGED <<xcards, xlimit>>
    /\ UNCHANGED notX

\* VagasComBrScraper._parse_html(html, limit)
RunVagasParse ==
    /\ xpc = "input"
    /\ xpc' = "done" /\ xwho' = "vagascombr" /\ xsource' = "vagascombr"
    /\ xjobs' = VagasParseHtml(xcards, xlimit)
    /\ xexamined' = Len(Take(xcards, xlimit * 2))
    /\ UNCHANGED <<xcards, xlimit>>
    /\ UNCHANGED notX

ExtractNext ==
    \/ \E source \in DOMAIN BASE_URLS : RunExtractorExecute(source)
    \/ RunGeekHunterParse
    \/ RunVagasParse

ExtractSpec == ExtractInit /\ [][ExtractNext]_vars

(***************************************************************************)
(* Properties of the record extractors (checked under ExtractSpec)         *)
(***************************************************************************)
ExtractorRan == xpc = "done" /\ xwho = "extractor"

\* C14: no two records of one ExtractorAgent.execute call have the same url
C14_NoDuplicateUrl ==
    ExtractorRan =>
        \A i, j \in 1..Len(xjobs) : i # j => xjobs[i].url # xjobs[j].url

\* the page held the relative and then the absolute form of one address, with
\* valid titles, and room for both: one record came out
C14_Witness ==
    /\ ExtractorRan /\ xsource = "geekhunter" /\ xlimit = 2
    /\ Len(xcards) >= 2
    /\ xcards[1].href = "/vagas/1"
    /\ xcards[2] = Card("div", "https://www.geekhunter.com.br/vagas/1", "Senior Python Developer", "")
    /\ Len(xjobs) = 1 /\ xexamined >= 2

\* C15: every record of ExtractorAgent has a title of at least 5 characters; a
\* container whose title and link text are both empty or under 5 characters
\* yields none
C15_TitleAtLeast5 ==
    ExtractorRan =>
        /\ \A i \in 1..Len(xjobs) : Len(xjobs[i].title) >= 5
        /\ \A i \in 1..Len(xjobs) :
              \E k \in 1..Len(xcards) :
                  /\ xjobs[i].title \in {xcards[k].title, xcards[k].link_text}
                  /\ ~( /\ xcards[k].title = None \/ Len(xcards[k].title) < 5
                        /\ Len(xcards[k].link_text) < 5 )

\* a card titled "Dev" with link text "QA" was examined and gave no record,
\* and a card with a short title gave a record titled by its link text
C15_Witness ==
    /\ ExtractorRan /\ xlimit = 2 /\ xexamined >= 2
    /\ xcards[1] = Card("a", "https://www.geekhunter.com.br/vagas/1", "Dev", "QA")
    /\ xcards[2] = Card("div", "/vagas/3", "Dev", "Data Engineer (remote)")
    /\ Len(xjobs) = 1 /\ xjobs[1].title = "Data Engineer (remote)"

\* the cards a call looks at, at most
FirstCards == Take(xcards, xlimit * 2)

\* a card the GeekHunter scraper can turn into a record: a link to a vacancy
\* and a title of at least 5 characters
GeekHunterValid(card) ==
    /\ card.href # None /\ card.href # ""
    /\ card.tag = "a" \/ Contains(card.href, "/vagas/")
    /\ LET title == IF card.title # None THEN card.title ELSE card.link_text
       IN  Len(title) >= 5

\* a link the Vagas scraper can turn into a record: an href and a title
VagasValid(card) ==
    /\ card.href # None /\ card.href # ""
    /\ card.title \notin {None, ""} \/ card.link_text # ""

\* the addresses of the valid cards among the first 2*limit
ValidUrls ==
    { MakeAbsolute(BASE_URLS[xwho], FirstCards[k].href) :
        k \in { n \in 1..Len(FirstCards) :
                  IF xwho = "geekhunter" THEN GeekHunterValid(FirstCards[n])
                  ELSE VagasValid(FirstCards[n]) } }

AtMostLimit == xpc = "done" => Len(xjobs) <= xlimit

\* ExtractorAgent looks at no more than 2*limit cards and at none after the
\* card that gave it its limit-th record
StopsAtLimit ==
    ExtractorRan =>
        /\ xexamined <= 2 * xlimit
        /\ xexamined <= Len(xcards)
        /\ (xlimit > 0 /\ Len(xjobs) = xlimit) =>
              xjobs[xlimit].url = MakeAbsolute(BASE_URLS[xsource], xcards[xexamined].href)

ExactlyLimit ==
    (xpc = "done" /\ xwho \in {"geekhunter", "vagascombr"}) =>
        (Cardinality(ValidUrls) >= xlimit => Len(xjobs) = xlimit)

\* C16: no extractor returns more than limit records; ExtractorAgent.execute
\* looks at no more than 2*limit containers and stops at the limit-th record;
\* the scrapers' _parse_html returns exactly limit records when the first
\* 2*limit cards hold at least limit valid cards with distinct addresses
C16_LimitRespected == AtMostLimit /\ StopsAtLimit /\ ExactlyLimit

ScraperParsed == xpc = "done" /\ xwho \in {"geekhunter", "vagascombr"}

\* C23: no two records of one _parse_html call of the GeekHunter or the
\* Vagas.com.br scraper have the same url; of several cards with the same
\* href, relative or absolute, only the first yields a record.
C23_ScraperNoDuplicateUrl ==
    ScraperParsed =>
        \A i, j \in 1..Len(xjobs) : i # j => xjobs[i].url # xjobs[j].url

(***************************************************************************)
(* Record ids: ExtractorAgent._generate_id and the ids                     *)
(* AgnoJobExtractor._parse_ai_response gives to the oracle's records       *)
(***************************************************************************)
MaxIdRecords == 2
MaxItemIndex == 1
HashSeeds == {0, 1}

\* the items of the oracle's JSON array that matter here: title and url
AiItems == { [title |-> "Python Developer", url |-> "/vagas/1"],
             [title |-> "Senior Python Developer", url |-> "https://www.geekhunter.com.br/vagas/1"],
             [title |-> "Backend Engineer", url |-> "/vagas/2"] }

\* hash(title) % 10000: str hashes are salted per process, so the value
\* depends on the process's seed as well as on the title
HashMod(seed, title) ==
    CASE seed = 0 /\ title = "Python Developer" -> 4821
      [] seed = 0 /\ title = "Senior Python Developer" -> 977
      [] seed = 0 /\ title = "Backend Engineer" -> 3310
      [] seed = 1 /\ title = "Python Developer" -> 6054
      [] seed = 1 /\ title = "Senior Python Developer" -> 8
      [] seed = 1 /\ title = "Backend Engineer" -> 7423

\* the record _parse_ai_response builds from item number i of the response
ParseAiItem(item, source, i, seed) ==
    Job("ai-" \o source \o "-" \o ToString(i) \o "-" \o ToString(HashMod(seed, item.title)),
        source, item.title,
        IF item.url # "" THEN MakeAbsolute(BASE_URLS[source], item.url) ELSE item.url)

\* a record produced by ExtractorAgent._extract_job from a card
RecordDeterministic(card, source) ==
    /\ Len(id_records) < MaxIdRecords
    /\ ExtractJob(card, source, {}) # <<>>
    /\ id_records' = id_records \o ExtractJob(card, source, {})
    /\ UNCHANGED hash_seed
    /\ UNCHANGED notI

\* a record produced by _parse_ai_response from item i of an oracle response
RecordOracle(item, source, i) ==
    /\ Len(id_records) < MaxIdRecords
    /\ id_records' = Append(id_records, ParseAiItem(item, source, i, hash_seed))
    /\ UNCHANGED hash_seed
    /\ UNCHANGED notI

\* the service is restarted: a new process, with a new hash seed
Restart(seed) ==
    /\ seed # hash_seed
    /\ hash_seed' = seed
    /\ UNCHANGED id_records
    /\ UNCHANGED notI

IdNext ==
    \/ \E card \in Cards, source \in DOMAIN BASE_URLS : RecordDeterministic(card, source)
    \/ \E item \in AiItems, source \in DOMAIN BASE_URLS, i \in 0..MaxItemIndex :
          RecordOracle(item, source, i)
    \/ \E seed \in HashSeeds : Restart(seed)

IdInit ==
    /\ PipelineIdle /\ HybridIdle /\ MergeIdle /\ LaterIdleExcept("id")
    /\ hash_seed \in HashSeeds /\ id_records = <<>>

IdSpec == IdInit /\ [][IdNext]_vars

\* C17: two records with the same source and the same url have the same id, in
\* any run and whichever of the extractor and the oracle produced them
C17_IdFromSourceAndUrl ==
    \A i, j \in 1..Len(id_records) :
        (id_records[i].source = id_records[j].source /\ id_records[i].url = id_records[j].url)
            => id_records[i].id = id_records[j].id

(***************************************************************************)
(* DGESScraper.scrape_all and _fetch_page (scrapers/dges.py)               *)
(***************************************************************************)
REGIONS == [r \in {"11", "12", "13", "14", "15", "16", "17"} |->
              CASE r = "11" -> "Lisboa" [] r = "12" -> "Centro" [] r = "13" -> "Norte"
                [] r = "14" -> "Alentejo" [] r = "15" -> "Algarve" [] r = "16" -> "Acores"
                [] r = "17" -> "Madeira"]
AllRegionCodes == <<"11", "12", "13", "14", "15", "16", "17">>

\* _fetch_page's default retries
RETRIES == 3
MaxRegions == 2
\* the region codes scrape_all is asked for; "99" is not a key of REGIONS
RequestedCodes == {"11", "99"}

\* self.REGIONS.get(region_code, region_code)
RegionName(region_code) ==
    IF region_code \in DOMAIN REGIONS THEN REGIONS[region_code] ELSE region_code

\* what a region page lists: institution names and course names
RegionPage(institutions, course_names) ==
    [institutions |-> institutions, course_names |-> course_names]
EmptyPage == RegionPage(<<>>, <<>>)
RegionPages == { EmptyPage,
                 RegionPage(<<"IST">>, <<"Engenharia Civil", "Matematica">>) }

\* _parse_region_page: the listings of the page, each with the region as city
ParseRegionPage(html, region_name) ==
    [universities |-> [k \in 1..Len(html.institutions) |->
                          [name |-> html.institutions[k], city |-> region_name]],
     courses |-> [k \in 1..Len(html.course_names) |->
                     [name |-> html.course_names[k], city |-> region_name]]]

NoContribution == [universities |-> <<>>, courses |-> <<>>]

\* what one request of _fetch_page can meet: a page, status 500, another
\* status that raise_for_status turns into an exception
FetchOutcomes == {"200", "500", "503"}

\* the history of the region at dpos, with one more outcome
Noted(outcome) ==
    IF dattempt = 0 THEN Append(doutcomes, <<outcome>>)
    ELSE [doutcomes EXCEPT ![dpos] = Append(@, outcome)]

\* scrape_all goes on to the next region with `contribution` added
NextRegion(contribution) ==
    /\ universities' = universities \o contribution.universities
    /\ courses' = courses \o contribution.courses
    /\ dcontrib' = Append(dcontrib, contribution)
    /\ dpos' = dpos + 1 /\ dattempt' = 0
    /\ dpc' = dpc

\* _fetch_page goes round its loop once more
Retry ==
    /\ dattempt' = dattempt + 1
    /\ UNCHANGED <<dpc, dpos, universities, courses, dcontrib>>

\* scrape_all(regions) is called
ScrapeAll(regions) ==
    /\ dpc = "idle"
    /\ dpc' = "crawl"
    /\ dregions' = IF regions = <<>> THEN AllRegionCodes ELSE regions
    /\ UNCHANGED <<dpos, dattempt, universities, courses, doutcomes, dcontrib, dreturned>>
    /\ UNCHANGED notD

\* variant: the exception of the last attempt leaves scrape_all
FetchAttemptAborts(outcome, html) ==
    /\ dpc = "crawl" /\ dpos <= Len(dregions)
    /\ doutcomes' = Noted(outcome)
    /\ IF outcome = "200" THEN NextRegion(ParseRegionPage(html, RegionName(dregions[dpos])))
       ELSE IF dattempt < RETRIES - 1 THEN Retry
       ELSE IF outcome = "500" THEN NextRegion(NoContribution)
       ELSE dpc' = "raised" /\ UNCHANGED <<dpos, dattempt, universities, courses, dcontrib>>
    /\ UNCHANGED <<dregions, dreturned>>
    /\ UNCHANGED notD

\* One request of _fetch_page for the region at dpos (lines 121-150) and what
\* follows it without waiting: the next turn of the retry loop, or the end
\* of _fetch_page and the rest of scrape_all's loop body (lines 244-266).
FetchAttempt(outcome, html) ==
    /\ dpc = "crawl" /\ dpos <= Len(dregions)
    /\ doutcomes' = Noted(outcome)
    /\ LET region_name == RegionName(dregions[dpos])
       IN  CASE outcome = "200" ->
                  \* return response.content.decode(...); the page is parsed
                  NextRegion(ParseRegionPage(html, region_name))
             [] outcome = "500" ->
                  IF dattempt < RETRIES - 1 THEN Retry
                  \* return "": an empty page is parsed
                  ELSE NextRegion(ParseRegionPage(EmptyPage, region_name))
             [] OTHER ->
                  IF dattempt < RETRIES - 1 THEN Retry
                  \* raise, caught by scrape_all's except: continue
                  ELSE NextRegion(NoContribution)
    /\ UNCHANGED <<dregions, dreturned>>
    /\ UNCHANGED notD

\* the loop over the regions is over: return the dict
DgesReturn ==
    /\ dpc = "crawl" /\ dpos > Len(dregions)
    /\ dpc' = "done"
    /\ dreturned' = <<[universities |-> universities, courses |-> courses]>>
    /\ UNCHANGED <<dregions, dpos, dattempt, universities, courses, doutcomes, dcontrib>>
    /\ UNCHANGED notD

DgesNext ==
    \/ \E regions \in SeqsUpTo(RequestedCodes, MaxRegions) \ {<<>>} : ScrapeAll(regions)
    \/ \E outcome \in FetchOutcomes, html \in RegionPages : FetchAttempt(outcome, html)
    \/ DgesReturn

DgesInit ==
    PipelineIdle /\ HybridIdle /\ MergeIdle /\ LaterIdleExcept("dges") /\ DgesIdle

DgesSpec == DgesInit /\ [][DgesNext]_vars

(***************************************************************************)
(* Properties of DGESScraper.scrape_all (checked under DgesSpec)           *)
(***************************************************************************)
\* every request for the k-th region met a server error, RETRIES times
AllServerErrors(k) ==
    /\ Len(doutcomes[k]) = RETRIES
    /\ \A a \in 1..RETRIES : doutcomes[k][a] \in {"500", "503"}

RECURSIVE Gathered(_, _)
\* the listings of kind f of the regions 1..k, in order
Gathered(k, f) == IF k = 0 THEN <<>> ELSE Gathered(k - 1, f) \o dcontrib[k][f]

\* C18: a region whose every request met a server error adds no institution
\* and no course; every region asked for is crawled, in the order asked;
\* scrape_all raises nothing and returns the listings of the other regions.
C18_FailedRegionIsEmpty ==
    /\ dpc # "raised"
    /\ dpc = "done" =>
          /\ Len(doutcomes) = Len(dregions) /\ Len(dcontrib) = Len(dregions)
          /\ \A k \in 1..Len(dregions) :
                /\ doutcomes[k] # <<>>
                /\ AllServerErrors(k) => dcontrib[k] = NoContribution
                /\ \A u \in Range(dcontrib[k].universities) \cup Range(dcontrib[k].courses) :
                      u.city = RegionName(dregions[k])
          /\ dreturned = <<[universities |-> Gathered(Len(dregions), "universities"),
                            courses |-> Gathered(Len(dregions), "courses")]>>

\* the first region met 500, 503, 503, the second answered: the crawl returned
\* the second region's institution and courses
C18_Witness ==
    /\ dpc = "done" /\ dregions = <<"11", "99">>
    /\ doutcomes = << <<"500", "503", "503">>, <<"200">> >>
    /\ Len(dreturned[1].universities) = 1 /\ Len(dreturned[1].courses) = 2
    /\ dreturned[1].universities[1].city = "99"

(***************************************************************************)
(* UniversityEnricher.enrich_batch (scrapers/enricher.py)                  *)
(***************************************************************************)
\* the default of max_concurrent
DEFAULT_MAX_CONCURRENT == 3
MaxUnits == 4
Concurrencies == {1, 2, DEFAULT_MAX_CONCURRENT}

Units == DOMAIN phase

\* enrich_batch(universities, max_concurrent): the semaphore is created and
\* gather starts one enrich_one task per unit
EnrichBatch(websites, mc) ==
    /\ epc = "idle"
    /\ epc' = "gathering"
    /\ has_website' = websites /\ max_concurrent' = mc
    /\ sem_value' = mc
    /\ phase' = [i \in 1..Len(websites) |-> "waiting"]
    /\ UNCHANGED <<holding, slept, processed>>
    /\ UNCHANGED notE

\* enrich_one up to its first wait: the slot is taken; without a website the
\* task returns at once and the slot is given back, otherwise enrich is awaited
EnterSlot(i) ==
    /\ epc = "gathering" /\ i \in Units /\ phase[i] = "waiting"
    /\ sem_value > 0
    /\ IF has_website[i]
       THEN /\ phase' = [phase EXCEPT ![i] = "enriching"]
            /\ sem_value' = sem_value - 1
            /\ holding' = holding \cup {i}
       ELSE /\ phase' = [phase EXCEPT ![i] = "no_website"]
            /\ UNCHANGED <<sem_value, holding>>
    /\ UNCHANGED <<epc, has_website, max_concurrent, slept, processed>>
    /\ UNCHANGED notE

\* variant: the slot is given back before the delay
EnrichReturnedReleases(i) ==
    /\ epc = "gathering" /\ i \in Units /\ phase[i] = "enriching"
    /\ phase' = [phase EXCEPT ![i] = "sleeping"]
    /\ sem_value' = sem_value + 1
    /\ holding' = holding \ {i}
    /\ UNCHANGED <<epc, has_website, max_concurrent, slept, processed>>
    /\ UNCHANGED notE

\* enrichment = await self.enrich(website) is over (enrich catches what its
\* body raises): await asyncio.sleep(delay_seconds), still inside the slot
EnrichReturned(i) ==
    /\ epc = "gathering" /\ i \in Units /\ phase[i] = "enriching"
    /\ phase' = [phase EXCEPT ![i] = "sleeping"]
    /\ UNCHANGED <<epc, has_website, max_concurrent, sem_value, holding, slept, processed>>
    /\ UNCHANGED notE

\* the delay is over: the task returns its dict and leaves `async with`
DelayOver(i) ==
    /\ epc = "gathering" /\ i \in Units /\ phase[i] = "sleeping"
    /\ phase' = [phase EXCEPT ![i] = "enriched"]
    /\ sem_value' = sem_value + 1
    /\ holding' = holding \ {i}
    /\ slept' = slept \cup {i}
    /\ UNCHANGED <<epc, has_website, max_concurrent, processed>>
    /\ UNCHANGED notE

\* every task is over: gather returns and the results are listed in order
GatherReturns ==
    /\ epc = "gathering"
    /\ \A i \in Units : phase[i] \in {"no_website", "enriched"}
    /\ epc' = "done"
    /\ processed' = [i \in Units |-> [unit |-> i, enriched |-> phase[i] = "enriched"]]
    /\ UNCHANGED <<has_website, max_concurrent, sem_value, phase, holding, slept>>
    /\ UNCHANGED notE

EnrichNext ==
    \/ \E websites \in SeqsUpTo(BOOLEAN, MaxUnits), mc \in Concurrencies :
          EnrichBatch(websites, mc)
    \/ \E i \in 1..MaxUnits : EnterSlot(i)
    \/ \E i \in 1..MaxUnits : EnrichReturned(i)
    \/ \E i \in 1..MaxUnits : DelayOver(i)
    \/ GatherReturns

EnrichInit ==
    PipelineIdle /\ HybridIdle /\ MergeIdle /\ LaterIdleExcept("enrich") /\ EnrichIdle

EnrichSpec == EnrichInit /\ [][EnrichNext]_vars

(***************************************************************************)
(* Properties of enrich_batch (checked under EnrichSpec)                   *)
(***************************************************************************)
InProgress == { i \in Units : phase[i] = "enriching" }
InDelay == { i \in Units : phase[i] = "sleeping" }

\* C19: never more than max_concurrent enrichments in progress; a unit that
\* is enriched holds its slot throughout the delay that follows its
\* enrichment, and gives it back only afterwards
C19_ConcurrencyBounded ==
    epc # "idle" =>
        /\ Cardinality(InProgress) <= max_concurrent
        /\ holding = InProgress \cup InDelay
        /\ Cardinality(holding) <= max_concurrent
        /\ sem_value = max_concurrent - Cardinality(holding)
        /\ \A i \in Units : phase[i] = "enriched" => i \in slept /\ i \notin holding

\* four units with a website and three slots: three slots are held, one of
\* them by a unit in its delay, and the fourth unit waits
C19_Witness ==
    /\ epc = "gathering" /\ max_concurrent = DEFAULT_MAX_CONCURRENT
    /\ Len(has_website) = 4 /\ \A i \in 1..4 : has_website[i]
    /\ Cardinality(InProgress) = 2 /\ Cardinality(InDelay) = 1
    /\ sem_value = 0
    /\ \E i \in Units : phase[i] = "waiting"

(***************************************************************************)
(* AgnoExtractionAgent.extract and its cache (agents/agno_extractor.py)    *)
(***************************************************************************)
\* content[:1000]
PREFIX_CHARS == 1000
\* a content is a sequence of blocks of ChunkChars characters each
ChunkChars == PREFIX_CHARS \div 2
MaxExtractCalls == 3

\* the (mode, content, use_cache) the agent is called with: two contents
\* that agree on their first 1000 characters, one that differs there,
\* another mode, and a call with the cache off
ExtractArgs ==
    { [mode |-> "mixed", content |-> <<"a", "b">>, use_cache |-> TRUE],
      [mode |-> "mixed", content |-> <<"a", "b", "c">>, use_cache |-> TRUE],
      [mode |-> "mixed", content |-> <<"a", "c">>, use_cache |-> TRUE],
      [mode |-> "courses", content |-> <<"a", "b">>, use_cache |-> TRUE],
      [mode |-> "mixed", content |-> <<"a", "b">>, use_cache |-> FALSE] }

RECURSIVE Joined(_)
\* the text of a sequence of blocks
Joined(blocks) == IF blocks = <<>> THEN "" ELSE Head(blocks) \o Joined(Tail(blocks))

\* hashlib.md5(...).hexdigest(): one digest per text
Md5Hex(text) == "md5(" \o text \o ")"

\* _get_cache_key
GetCacheKey(content, mode) ==
    Md5Hex(mode \o ":" \o Joined(Take(content, PREFIX_CHARS \div ChunkChars)))

\* the AgnoExtractionResult extract builds when it has nothing from the oracle
EmptyResult == 0

\* what the wait for _call_api and the parse that follows can end in: a
\* result, or none (no response, or an exception on the way)
ApiOutcomes == {"response", "none"}

\* extract(content, mode, use_cache) up to its first wait: a cached result is
\* returned at once, otherwise the oracle API is called
ExtractCall(args) ==
    /\ Len(ccalls) < MaxExtractCalls
    /\ LET cache_key == GetCacheKey(args.content, args.mode)
           hit == args.use_cache /\ cache_key \in DOMAIN cache
       IN  ccalls' = Append(ccalls,
                [ mode |-> args.mode, content |-> args.content,
                  use_cache |-> args.use_cache, cache_key |-> cache_key,
                  state |-> IF hit THEN "returned" ELSE "api",
                  api_called |-> ~hit, outcome |-> None,
                  result |-> IF hit THEN cache[cache_key] ELSE EmptyResult,
                  \* the calls that had returned when this one started
                  after |-> { i \in 1..Len(ccalls) : ccalls[i].state = "returned" } ])
    /\ UNCHANGED cache
    /\ UNCHANGED notC

\* variant: the result is stored whatever the oracle answered
ApiReturnsStoresAlways(i, outcome) ==
    /\ i \in 1..Len(ccalls) /\ ccalls[i].state = "api"
    /\ LET c == ccalls[i]
           result == IF outcome = "response" THEN i ELSE EmptyResult
       IN  /\ ccalls' = [ccalls EXCEPT ![i] = [c EXCEPT !.state = "returned", !.outcome = outcome,
                                                       !.result = result]]
           /\ cache' = [k \in DOMAIN cache \cup {c.cache_key} |->
                           IF k = c.cache_key THEN result ELSE cache[k]]
    /\ UNCHANGED notC

\* the wait of call i for _call_api is over: with a response that parses, the
\* result (a new object, named by the call's number) is stored when
\* use_cache is on; without a response, or when _parse_response raises,
\* an empty result is returned and nothing is stored
ApiReturns(i, outcome) ==
    /\ i \in 1..Len(ccalls) /\ ccalls[i].state = "api"
    /\ LET c == ccalls[i]
           result == IF outcome = "response" THEN i ELSE EmptyResult
       IN  /\ ccalls' = [ccalls EXCEPT ![i] = [c EXCEPT !.state = "returned", !.outcome = outcome,
                                                       !.result = result]]
           /\ cache' = IF outcome = "response" /\ c.use_cache
                       THEN [k \in DOMAIN cache \cup {c.cache_key} |->
                               IF k = c.cache_key THEN result ELSE cache[k]]
                       ELSE cache
    /\ UNCHANGED notC

CacheNext ==
    \/ \E args \in ExtractArgs : ExtractCall(args)
    \/ \E i \in 1..MaxExtractCalls, outcome \in ApiOutcomes : ApiReturns(i, outcome)

CacheInit ==
    PipelineIdle /\ HybridIdle /\ MergeIdle /\ LaterIdleExcept("cache") /\ CacheIdle

CacheSpec == CacheInit /\ [][CacheNext]_vars

(***************************************************************************)
(* Properties of the extraction cache (checked under CacheSpec)            *)
(***************************************************************************)
CallIds == 1..Len(ccalls)
\* call i, with caching on, has returned a result it got from the oracle
ReturnedOracleResult(i) ==
    /\ ccalls[i].use_cache /\ ccalls[i].state = "returned"
    /\ ccalls[i].api_called /\ ccalls[i].outcome = "response"
\* call j, with caching on, started after call i had returned, with the mode
\* of call i and a content that has the same first 1000 characters
LaterSameInput(i, j) ==
    /\ ccalls[j].use_cache /\ i \in ccalls[j].after
    /\ ccalls[j].mode = ccalls[i].mode
    /\ Take(ccalls[j].content, PREFIX_CHARS \div ChunkChars)
         = Take(ccalls[i].content, PREFIX_CHARS \div ChunkChars)
\* what the cache holds was stored by a call that got an oracle response
OnlyResponsesStored ==
    \A k \in DOMAIN cache :
        \E i \in CallIds : ReturnedOracleResult(i) /\ ccalls[i].cache_key = k /\ cache[k] = i

\* C20 as stated: once a call with caching on has returned an oracle result,
\* every later call with caching on, the same mode and the same first 1000
\* characters returns that same result without calling the oracle API; a
\* call that got no oracle response stores nothing.
C20_CachedResultReturned ==
    /\ \A i, j \in CallIds :
          (ReturnedOracleResult(i) /\ LaterSameInput(i, j)) =>
              /\ ~ccalls[j].api_called
              /\ ccalls[j].result = ccalls[i].result
    /\ OnlyResponsesStored

\* the calls for the input of call j that had stored a result before j started
StoredBefore(j) ==
    { i \in ccalls[j].after : ReturnedOracleResult(i) /\ ccalls[i].cache_key = ccalls[j].cache_key }

\* C20, amended: such a later call returns, without calling the oracle API, a
\* result that a call for that input had got from the oracle and returned
\* before it started (the first call's result unless a call that was already
\* waiting for the oracle has stored its own since); a call that got no
\* oracle response stores nothing.
C20_CachedResultReturnedAmended ==
    /\ \A i, j \in CallIds :
          (ReturnedOracleResult(i) /\ LaterSameInput(i, j)) =>
              /\ ~ccalls[j].api_called
              /\ ccalls[j].state = "returned"
              /\ \E l \in StoredBefore(j) : ccalls[j].result = ccalls[l].result
              /\ StoredBefore(j) = {i} => ccalls[j].result = ccalls[i].result
    /\ OnlyResponsesStored

\* a call got an oracle result for "mixed" and a content; a later call with a
\* longer content that has the same first 1000 characters returned that
\* result without calling the oracle, while a call without response
\* left the cache alone
C20_Witness ==
    /\ Len(ccalls) = 3
    /\ ReturnedOracleResult(1) /\ ccalls[1].content = <<"a", "b">>
    /\ ccalls[2].content = <<"a", "c">> /\ ccalls[2].outcome = "none"
    /\ ccalls[3].content = <<"a", "b", "c">> /\ LaterSameInput(1, 3)
    /\ ~ccalls[3].api_called /\ ccalls[3].result = 1
    /\ DOMAIN cache = {GetCacheKey(<<"a", "b">>, "mixed")}

(***************************************************************************)
(* DGESScraper._fetch_page (scrapers/dges.py): one call, with its sleeps   *)
(* and its requests                                                        *)
(***************************************************************************)
RATE_LIMIT_DELAY == 1
MaxRetries == 3      \* retries arguments 0..MaxRetries

\* what one `await client.get(url)` and the lines after it can do: a 2xx
\* response with a body, a status-500 response, another error status (on
\* which raise_for_status raises), or an error raised by the request itself
Bodies == {"", "<html>dges</html>"}
GetOutcomes ==
    { [kind |-> "response", status |-> 200, body |-> b, error |-> None] : b \in Bodies }
        \cup { [kind |-> "response", status |-> 500, body |-> "", error |-> None],
               [kind |-> "response", status |-> 404, body |-> "", error |-> "HTTPStatusError"],
               [kind |-> "raised", status |-> 0, body |-> "", error |-> "ConnectError"] }

Slept(secs) == [kind |-> "sleep", secs |-> secs]
Requested(out) == [kind |-> "get", out |-> out]

\* _fetch_page(url, retries): client and last_error are set; the for-loop
\* starts, or has nothing to run over and the lines after it return ""
FetchPageCall(retries) ==
    /\ qpc = "idle"
    /\ qretries' = retries /\ qattempt' = 0 /\ last_error' = <<>>
    /\ IF retries > 0
       THEN qpc' = "delay" /\ qresult' = qresult
       ELSE qpc' = "returned" /\ qresult' = <<"">>
    /\ UNCHANGED <<qevents, qraised>>
    /\ UNCHANGED notQ

\* await asyncio.sleep(self.RATE_LIMIT_DELAY)
RateLimitDelay ==
    /\ qpc = "delay"
    /\ qpc' = "get"
    /\ qevents' = Append(qevents, Slept(RATE_LIMIT_DELAY))
    /\ UNCHANGED <<qretries, qattempt, last_error, qresult, qraised>>
    /\ UNCHANGED notQ

\* a variant without the status-500 branch: a 500 goes to raise_for_status
\* like every other error status
TryGetNo500Branch(out) ==
    /\ qpc = "get"
    /\ LET more == qattempt < qretries - 1
           req == Append(qevents, Requested(out))
       IN  IF out.kind = "response" /\ out.status = 200
           THEN /\ qpc' = "returned" /\ qresult' = <<out.body>>
                /\ qevents' = req
                /\ UNCHANGED <<qattempt, last_error, qraised>>
           ELSE /\ last_error' = <<IF out.error = None THEN "HTTPStatusError" ELSE out.error>>
                /\ IF more
                   THEN /\ qevents' = Append(req, Slept(3))
                        /\ qattempt' = qattempt + 1 /\ qpc' = "delay"
                        /\ UNCHANGED <<qresult, qraised>>
                   ELSE /\ qevents' = req
                        /\ qpc' = "raised" /\ qraised' = last_error'
                        /\ UNCHANGED <<qattempt, qresult>>
    /\ UNCHANGED qretries
    /\ UNCHANGED notQ

\* the try block of one iteration and its except clause: the request, the
\* status-500 branch, raise_for_status, the return of the decoded body; the
\* sleep before a retry is part of the step
TryGet(out) ==
    /\ qpc = "get"
    /\ LET more == qattempt < qretries - 1
           req == Append(qevents, Requested(out))
       IN  IF out.kind = "response" /\ out.status = 500
           THEN IF more
                THEN /\ qevents' = Append(req, Slept(5))
                     /\ qattempt' = qattempt + 1 /\ qpc' = "delay"
                     /\ UNCHANGED <<last_error, qresult, qraised>>
                ELSE /\ qevents' = req
                     /\ qpc' = "returned" /\ qresult' = <<"">>
                     /\ UNCHANGED <<qattempt, last_error, qraised>>
           ELSE IF out.error = None
           THEN /\ qpc' = "returned" /\ qresult' = <<out.body>>
                /\ qevents' = req
                /\ UNCHANGED <<qattempt, last_error, qraised>>
           ELSE /\ last_error' = <<out.error>>
                /\ IF more
                   THEN /\ qevents' = Append(req, Slept(3))
                        /\ qattempt' = qattempt + 1 /\ qpc' = "delay"
                        /\ UNCHANGED <<qresult, qraised>>
                   ELSE /\ qevents' = req
                        /\ qpc' = "raised" /\ qraised' = <<out.error>>
                        /\ UNCHANGED <<qattempt, qresult>>
    /\ UNCHANGED qretries
    /\ UNCHANGED notQ

FetchPageNext ==
    \/ \E retries \in 0..MaxRetries : FetchPageCall(retries)
    \/ RateLimitDelay
    \/ \E out \in GetOutcomes : TryGet(out)

FetchPageInit ==
    PipelineIdle /\ HybridIdle /\ MergeIdle /\ LaterIdleExcept("page") /\ FetchPageIdle

FetchPageSpec == FetchPageInit /\ [][FetchPageNext]_vars

(***************************************************************************)
(* Properties of _fetch_page (checked under FetchPageSpec)                 *)
(***************************************************************************)
\* the positions in qevents of the call's requests, and the k-th of them
RequestAt == { i \in 1..Len(qevents) : qevents[i].kind = "get" }
Got500(e) == e.out.kind = "response" /\ e.out.status = 500
GotError(e) == e.out.error # None
FetchPageOver == qpc \in {"returned", "raised"}
LastEvent == qevents[Len(qevents)]

\* C26: _fetch_page makes at most `retries` requests and sleeps the
\* rate-limit delay right before each; a request is followed by another one
\* only if it got status 500 or an error was raised, and the call returns the
\* body of the first response that is neither; it returns the empty page when
\* the last attempt got status 500 and raises the error of the last attempt
\* when that attempt raised.
C26_BoundedRetries ==
    /\ Cardinality(RequestAt) <= qretries
    /\ \A i \in RequestAt : i > 1 /\ qevents[i - 1] = Slept(RATE_LIMIT_DELAY)
    /\ \A i \in RequestAt :
          IF Got500(qevents[i]) \/ GotError(qevents[i])
          THEN i = Len(qevents) =>
                  FetchPageOver /\ Cardinality(RequestAt) = qretries
          ELSE /\ i = Len(qevents) /\ qpc = "returned"
               /\ qresult = <<qevents[i].out.body>>
    /\ FetchPageOver /\ qevents # <<>> =>
          /\ LastEvent.kind = "get"
          /\ Got500(LastEvent) => qpc = "returned" /\ qresult = <<"">>
          /\ GotError(LastEvent) => qpc = "raised" /\ qraised = <<LastEvent.out.error>>
    /\ (qpc = "raised") <=> (qraised # <<>>)
    /\ (qpc = "returned") <=> (qresult # <<>>)

\* three attempts: an error status, a status 500, and a status 500 again on
\* the last attempt; the call returned the empty page
C26_Witness ==
    /\ qpc = "returned" /\ qretries = 3 /\ qresult = <<"">>
    /\ Cardinality(RequestAt) = 3
    /\ qevents[2].out.status = 404 /\ qevents[3] = Slept(3)
    /\ qevents[5].out.status = 500 /\ qevents[6] = Slept(5)
    /\ Got500(LastEvent)

(***************************************************************************)
(* The card detection of AnalyzerAgent.execute (agents/analyzer_agent.py): *)
(* _detect_job_cards over the source's known selectors, then               *)
(* _auto_detect_job_cards over the generic patterns                        *)
(***************************************************************************)
\* KNOWN_SELECTORS.get(context.source, {}).get("job_cards", [])
KnownJobCards(source) ==
    CASE source = "geekhunter" ->
            <<"[data-testid=\"job-card\"]", ".job-card", ".vaga-card", "a[href*=\"/vagas/\"]">>
      [] source = "vagascombr" ->
            <<".vaga", ".job-listing", ".resultado-item", "a[href*=\"/vaga/\"]">>
      [] OTHER -> <<>>

\* the list `patterns` of _auto_detect_job_cards
patterns ==
    << "[data-job]", "[data-vaga]", "[data-listing]", "[data-testid*=\"job\"]",
       "[data-testid*=\"vaga\"]",
       "[class*=\"job-card\"]", "[class*=\"vaga\"]", "[class*=\"listing\"]",
       "[class*=\"result-item\"]",
       "a[href*=\"/job/\"]", "a[href*=\"/vaga/\"]", "a[href*=\"/position/\"]",
       "a[href*=\"/oportunidade/\"]",
       "li[class*=\"job\"]", "article[class*=\"job\"]", "div[class*=\"job\"]" >>

MinimumThreshold == 3
MaxMatches == 3      \* a selector matches 0..MaxMatches elements of the page

AnalyzerSources == {"geekhunter", "vagascombr", "linkedin"}

\* the match counts a page gives to the known selectors of a source
KnownCounts(source) == [1..Len(KnownJobCards(source)) -> 0..MaxMatches]

\* the match counts a page gives to the generic patterns: at most two of the
\* patterns match anything
PatternCounts ==
    { [p \in 1..Len(patterns) |-> IF p = a THEN ca ELSE IF p = b THEN cb ELSE 0] :
        a \in 1..Len(patterns), b \in 1..Len(patterns),
        ca \in 0..MaxMatches, cb \in 0..MaxMatches }

\* a variant of the loop that takes the later selector on equal counts
RECURSIVE DetectLoopLastWins(_, _, _, _, _)
DetectLoopLastWins(selectors, counts, i, best_selector, best_count) ==
    IF i > Len(selectors) THEN <<best_selector, best_count>>
    ELSE IF counts[i] >= best_count /\ counts[i] > 0
    THEN DetectLoopLastWins(selectors, counts, i + 1, selectors[i], counts[i])
    ELSE DetectLoopLastWins(selectors, counts, i + 1, best_selector, best_count)

\* the for-loop of _detect_job_cards from selector i on
RECURSIVE DetectLoop(_, _, _, _, _)
DetectLoop(selectors, counts, i, best_selector, best_count) ==
    IF i > Len(selectors) THEN <<best_selector, best_count>>
    ELSE IF counts[i] > best_count
    THEN DetectLoop(selectors, counts, i + 1, selectors[i], counts[i])
    ELSE DetectLoop(selectors, counts, i + 1, best_selector, best_count)

DetectJobCardsLastWins(selectors, counts) ==
    DetectLoopLastWins(selectors, counts, 1, None, 0)

\* _detect_job_cards(soup, selectors)
DetectJobCards(selectors, counts) == DetectLoop(selectors, counts, 1, None, 0)

\* the for-loop of _auto_detect_job_cards from pattern i on
RECURSIVE AutoDetectLoop(_, _)
AutoDetectLoop(counts, i) ==
    IF i > Len(patterns) THEN <<None, 0>>
    ELSE IF counts[i] >= MinimumThreshold THEN <<patterns[i], counts[i]>>
    ELSE AutoDetectLoop(counts, i + 1)

\* _auto_detect_job_cards(soup)
AutoDetectJobCards(counts) == AutoDetectLoop(counts, 1)

\* execute: job_card_selector, job_cards_count = self._detect_job_cards(...)
AnalyzeKnown(source, counts) ==
    /\ apc = "idle"
    /\ apc' = "known_done"
    /\ asource' = source /\ known_counts' = counts
    /\ LET r == DetectJobCards(KnownJobCards(source), counts)
       IN  job_card_selector' = r[1] /\ job_cards_count' = r[2]
    /\ UNCHANGED pattern_counts
    /\ UNCHANGED notA

\* execute: if job_cards_count == 0, the result of _auto_detect_job_cards
\* replaces both locals
AnalyzeAuto(counts) ==
    /\ apc = "known_done" /\ job_cards_count = 0
    /\ apc' = "done"
    /\ pattern_counts' = counts
    /\ LET r == AutoDetectJobCards(counts)
       IN  job_card_selector' = r[1] /\ job_cards_count' = r[2]
    /\ UNCHANGED <<asource, known_counts>>
    /\ UNCHANGED notA

\* execute: job_cards_count is not 0, the known selector stands
AnalyzeKeep ==
    /\ apc = "known_done" /\ job_cards_count # 0
    /\ apc' = "done"
    /\ UNCHANGED <<asource, known_counts, pattern_counts, job_card_selector,
                   job_cards_count>>
    /\ UNCHANGED notA

AnalyzerNext ==
    \/ \E source \in AnalyzerSources :
          \E counts \in KnownCounts(source) : AnalyzeKnown(source, counts)
    \/ \E counts \in PatternCounts : AnalyzeAuto(counts)
    \/ AnalyzeKeep

AnalyzerInit ==
    PipelineIdle /\ HybridIdle /\ MergeIdle /\ LaterIdleExcept("analyzer") /\ AnalyzerIdle

AnalyzerSpec == AnalyzerInit /\ [][AnalyzerNext]_vars

(***************************************************************************)
(* Properties of the card detection (checked under AnalyzerSpec)           *)
(***************************************************************************)
KnownMatching == { i \in DOMAIN known_counts : known_counts[i] > 0 }
PatternsAccepted == { p \in DOMAIN pattern_counts : pattern_counts[p] >= 3 }

\* C28: when a known candidate matches, the record container is the known
\* candidate with the highest match count, the earliest one on ties;
\* otherwise it is the first generic pattern, in list order, with at least 3
\* matches; if there is none either, the container is absent and the card
\* count is 0.
C28_ContainerChoice ==
    apc = "done" =>
        IF KnownMatching # {}
        THEN /\ pattern_counts = <<>>
             /\ \E i \in KnownMatching :
                   /\ \A j \in KnownMatching : known_counts[j] <= known_counts[i]
                   /\ \A j \in KnownMatching : known_counts[j] = known_counts[i] => i <= j
                   /\ job_card_selector = KnownJobCards(asource)[i]
                   /\ job_cards_count = known_counts[i]
        ELSE IF PatternsAccepted # {}
        THEN \E p \in PatternsAccepted :
                /\ \A q \in PatternsAccepted : p <= q
                /\ job_card_selector = patterns[p]
                /\ job_cards_count = pattern_counts[p]
        ELSE job_card_selector = None /\ job_cards_count = 0

\* two known selectors tie at two matches behind a first one with a single
\* match: the earlier of the two is chosen
C28_Witness ==
    /\ apc = "done" /\ asource = "vagascombr"
    /\ known_counts = <<1, 2, 0, 2>>
    /\ job_card_selector = ".job-listing" /\ job_cards_count = 2

\* no known selector matches and the first pattern with any match has fewer
\* than 3: a later pattern with 3 matches is accepted
C28_WitnessAuto ==
    /\ apc = "done" /\ KnownMatching = {}
    /\ pattern_counts[2] = 2 /\ pattern_counts[7] = 3
    /\ job_card_selector = "[class*=\"vaga\"]" /\ job_cards_count = 3

(***************************************************************************)
(* BrowserManager.get_browser (utils/browser.py) called by concurrent      *)
(* fetches on the module's global browser_manager.  The tasks run on one   *)
(* event loop: a task runs alone from one await to the next.               *)
(***************************************************************************)
MaxCallers == 4
Callers == 1..MaxCallers

\* the callers that exist: fetch_with_playwright tasks about to call
\* create_context, on a manager that has no browser
BrowserStart ==
    /\ bpc = [c \in Callers |-> "idle"] /\ got = [c \in Callers |-> 0]
    /\ mgr_browser = 0 /\ mgr_playwright = 0
    /\ browsers_launched = {} /\ drivers_started = {}

\* self._browser is None or not self._browser.is_connected(); a launched
\* browser stays connected in the model
NotConnected == mgr_browser = 0

\* get_browser up to its first await: the test, then either
\* `return self._browser` or the call of async_playwright().start()
GetBrowser(c) ==
    /\ bpc[c] = "idle"
    /\ IF NotConnected
       THEN bpc' = [bpc EXCEPT ![c] = "starting"] /\ got' = got
       ELSE bpc' = [bpc EXCEPT ![c] = "returned"] /\ got' = [got EXCEPT ![c] = mgr_browser]
    /\ UNCHANGED <<mgr_browser, mgr_playwright, browsers_launched, drivers_started>>
    /\ UNCHANGED notB

\* start() is over: self._playwright = <the new driver>, then the call of
\* chromium.launch(...)
PlaywrightStarted(c) ==
    /\ bpc[c] = "starting"
    /\ LET driver == Cardinality(drivers_started) + 1
       IN  /\ drivers_started' = drivers_started \cup {driver}
           /\ mgr_playwright' = driver
    /\ bpc' = [bpc EXCEPT ![c] = "launching"]
    /\ UNCHANGED <<mgr_browser, browsers_launched, got>>
    /\ UNCHANGED notB

\* launch() is over: self._browser = <the new browser>; return self._browser
BrowserLaunched(c) ==
    /\ bpc[c] = "launching"
    /\ LET browser == Cardinality(browsers_launched) + 1
       IN  /\ browsers_launched' = browsers_launched \cup {browser}
           /\ mgr_browser' = browser
           /\ got' = [got EXCEPT ![c] = browser]
    /\ bpc' = [bpc EXCEPT ![c] = "returned"]
    /\ UNCHANGED <<mgr_playwright, drivers_started>>
    /\ UNCHANGED notB

BrowserNext ==
    \E c \in Callers : GetBrowser(c) \/ PlaywrightStarted(c) \/ BrowserLaunched(c)

BrowserInit ==
    PipelineIdle /\ HybridIdle /\ MergeIdle /\ LaterIdleExcept("browser") /\ BrowserStart

BrowserSpec == BrowserInit /\ [][BrowserNext]_vars

(***************************************************************************)
(* Properties of get_browser (checked under BrowserSpec)                   *)
(***************************************************************************)
BrowserReturned == { c \in DOMAIN bpc : bpc[c] = "returned" }

\* C24: concurrent get_browser calls on a manager without a browser launch
\* one browser and one Playwright driver, every caller receives that one
\* browser, and no launched browser is left without a reference in the
\* manager.
C24_SingleBrowser ==
    /\ Cardinality(browsers_launched) <= 1
    /\ Cardinality(drivers_started) <= 1
    /\ \A c, d \in BrowserReturned : got[c] = got[d]
    /\ \A b \in browsers_launched : b = mgr_browser

(***************************************************************************)
(* The paginated crawls of EduPortugalScraper (scrapers/eduportugal.py):   *)
(* scrape_universities, and scrape_courses with _scrape_courses_by_level   *)
(***************************************************************************)
COURSE_LEVELS ==
    << "licenciatura", "mestrado", "mestrado-integrado", "doutorado", "pos-doutorado",
       "mba", "pos-graduacao", "curso-tecnico", "b-learning", "e-learning",
       "formacao-executiva", "especializacao" >>

MaxLevels == 2       \* scrape_courses is called with 1..MaxLevels levels
MaxPages == 3        \* a listing has 1..MaxPages pages (after min with max_pages)

\* the levels arguments of the model: known levels and one that is not
LevelArgs == {"licenciatura", "mestrado", "bacharelado"}

\* what fetching and parsing one page can do: _fetch_page raises, or the page
\* parses to no item, or to one item
PageOutcomes == {"fail", "empty", "item"}
PageItems(level, page, outcome) ==
    IF outcome = "item" THEN <<[level |-> level, page |-> page]>> ELSE <<>>
Attempt(level, page, outcome) == [level |-> level, page |-> page, outcome |-> outcome]

\* the for-loop of scrape_courses from position i on: the first level that
\* is in COURSE_LEVELS (Len + 1 when there is none)
RECURSIVE NextKnownLevel(_, _)
NextKnownLevel(levels, i) ==
    IF i > Len(levels) THEN i
    ELSE IF levels[i] \in Range(COURSE_LEVELS) THEN i
    ELSE NextKnownLevel(levels, i + 1)

\* scrape_universities(...): the local list, then the fetch of the first page
ScrapeUniversities ==
    /\ upc = "idle"
    /\ upc' = "first" /\ uwhat' = "universities"
    /\ levels_to_scrape' = <<"universities">> /\ ulevel' = 1
    /\ page_num' = 1 /\ ulisting' = <<>>
    /\ UNCHANGED <<total_pages, all_courses, uattempts, ureturned>>
    /\ UNCHANGED notU

\* scrape_courses(levels, ...): the loop goes to the first known level and
\* _scrape_courses_by_level starts, or no level is known and [] is returned
ScrapeCourses(levels) ==
    /\ upc = "idle"
    /\ uwhat' = "courses" /\ levels_to_scrape' = levels
    /\ ulevel' = NextKnownLevel(levels, 1)
    /\ page_num' = 1 /\ ulisting' = <<>> /\ all_courses' = <<>>
    /\ IF ulevel' > Len(levels)
       THEN upc' = "done" /\ ureturned' = <<all_courses'>>
       ELSE upc' = "first" /\ ureturned' = ureturned
    /\ UNCHANGED <<total_pages, uattempts>>
    /\ UNCHANGED notU

\* the listing being crawled is over: scrape_universities returns its list;
\* _scrape_courses_by_level returns, scrape_courses extends all_courses and
\* goes to the next known level or returns
EndListing(listing) ==
    IF uwhat = "universities"
    THEN /\ upc' = "done" /\ ureturned' = <<listing>>
         /\ ulisting' = listing
         /\ UNCHANGED <<ulevel, all_courses>>
    ELSE /\ all_courses' = all_courses \o listing
         /\ ulevel' = NextKnownLevel(levels_to_scrape, ulevel + 1)
         /\ ulisting' = <<>>
         /\ IF ulevel' > Len(levels_to_scrape)
            THEN upc' = "done" /\ ureturned' = <<all_courses'>>
            ELSE upc' = "first" /\ ureturned' = ureturned

\* the first page of a listing: html = await self._fetch_page(base_url),
\* outside any try block; total_pages and the items of the page
FetchFirstPage(outcome, pages) ==
    /\ upc = "first"
    /\ uattempts' = Append(uattempts, Attempt(levels_to_scrape[ulevel], 1, outcome))
    /\ IF outcome = "fail"
       THEN /\ upc' = "raised"
            /\ UNCHANGED <<ulevel, page_num, total_pages, ulisting, all_courses, ureturned>>
       ELSE LET listing == PageItems(levels_to_scrape[ulevel], 1, outcome)
            IN  /\ total_pages' = pages
                /\ IF pages >= 2
                   THEN /\ upc' = "pages" /\ page_num' = 2 /\ ulisting' = listing
                        /\ UNCHANGED <<ulevel, all_courses, ureturned>>
                   ELSE page_num' = 1 /\ EndListing(listing)
    /\ UNCHANGED <<uwhat, levels_to_scrape>>
    /\ UNCHANGED notU

\* one iteration of `for page_num in range(2, total_pages + 1)`: the fetch
\* and the parse are inside try, `except Exception: continue`
FetchLaterPage(outcome) ==
    /\ upc = "pages"
    /\ uattempts' = Append(uattempts, Attempt(levels_to_scrape[ulevel], page_num, outcome))
    /\ LET listing == ulisting \o PageItems(levels_to_scrape[ulevel], page_num, outcome)
       IN  IF page_num < total_pages
           THEN /\ page_num' = page_num + 1 /\ ulisting' = listing
                /\ UNCHANGED <<upc, ulevel, all_courses, ureturned>>
           ELSE page_num' = page_num /\ EndListing(listing)
    /\ UNCHANGED <<uwhat, levels_to_scrape, total_pages>>
    /\ UNCHANGED notU

EduNext ==
    \/ ScrapeUniversities
    \/ \E levels \in SeqsUpTo(LevelArgs, MaxLevels) \ {<<>>} : ScrapeCourses(levels)
    \/ \E outcome \in PageOutcomes, pages \in 1..MaxPages : FetchFirstPage(outcome, pages)
    \/ \E outcome \in PageOutcomes : FetchLaterPage(outcome)

EduInit ==
    PipelineIdle /\ HybridIdle /\ MergeIdle /\ LaterIdleExcept("edu") /\ EduIdle

EduSpec == EduInit /\ [][EduNext]_vars

(***************************************************************************)
(* Properties of the EduPortugal crawls (checked under EduSpec)            *)
(***************************************************************************)
\* the items of the pages that were fetched, in crawl order
RECURSIVE ItemsOf(_)
ItemsOf(attempts) ==
    IF attempts = <<>> THEN <<>>
    ELSE PageItems(Head(attempts).level, Head(attempts).page, Head(attempts).outcome)
             \o ItemsOf(Tail(attempts))

KnownLevelsAsked ==
    { levels_to_scrape[i] : i \in { k \in DOMAIN levels_to_scrape :
          uwhat = "universities" \/ levels_to_scrape[k] \in Range(COURSE_LEVELS) } }

\* C25: a page whose fetch fails, the first page of a listing or of a level
\* included, does not abort the crawl: the crawl returns, the failing page
\* adds no item, and the other pages and levels are crawled and their items
\* returned.
C25_PageFailureDoesNotAbort ==
    /\ upc # "raised"
    /\ upc = "done" =>
          /\ ureturned = <<ItemsOf(uattempts)>>
          /\ \A level \in KnownLevelsAsked :
                \E i \in DOMAIN uattempts :
                    uattempts[i].level = level /\ uattempts[i].page = 1

\* the part of C25 that the code keeps: a failure on a page after the first
\* costs that page only
LaterPageFailureKept ==
    upc = "done" => ureturned = <<ItemsOf(uattempts)>>

(***************************************************************************)
(* The endpoints of main.py that accept a custom base_url                  *)
(* (/eduportugal/universities, /eduportugal/courses, /dges/universities,   *)
(* /dges/courses): concurrent requests on the module's shared scraper.     *)
(* The handlers run on one event loop: a handler runs alone from one       *)
(* await to the next.                                                      *)
(***************************************************************************)
EDUPORTUGAL_BASE_URL == "https://eduportugal.eu"

MaxRequests == 2
Requests == 1..MaxRequests

\* the base_url arguments of the model: not passed, or a custom address
BaseUrlArgs == {None, "https://mirror.example/", "http://localhost:8080"}

\* base_url.rstrip("/") on the arguments of the model
Rstrip(url) ==
    IF url = "https://mirror.example/" THEN "https://mirror.example" ELSE url

\* `if base_url:`
Passed(arg) == arg # None /\ arg # ""

\* the requests that exist, none of them started, on a scraper that holds
\* its configured base_url
EndpointStart ==
    /\ rpc = [r \in Requests |-> "idle"] /\ rarg = [r \in Requests |-> None]
    /\ original_base_url = [r \in Requests |-> None]
    /\ scraper_base_url = EDUPORTUGAL_BASE_URL
    /\ crawled_with = [r \in Requests |-> {}]

\* the handler up to its first await: original_base_url is saved, a passed
\* base_url is applied, the crawl is called and reads self.base_url for its
\* first address
HandleRequest(r, arg) ==
    /\ rpc[r] = "idle"
    /\ rpc' = [rpc EXCEPT ![r] = "crawling"]
    /\ rarg' = [rarg EXCEPT ![r] = arg]
    /\ original_base_url' = [original_base_url EXCEPT ![r] = scraper_base_url]
    /\ scraper_base_url' = IF Passed(arg) THEN Rstrip(arg) ELSE scraper_base_url
    /\ crawled_with' = [crawled_with EXCEPT ![r] = {scraper_base_url'}]
    /\ UNCHANGED notR

\* the crawl resumes after an await and reads self.base_url again (the next
\* level or region, the links of a fetched page)
CrawlReadsBaseUrl(r) ==
    /\ rpc[r] = "crawling"
    /\ crawled_with' = [crawled_with EXCEPT ![r] = @ \cup {scraper_base_url}]
    /\ UNCHANGED <<rpc, rarg, original_base_url, scraper_base_url>>
    /\ UNCHANGED notR

\* the crawl returned or raised: the finally clause restores the saved
\* address when the request passed a base_url
FinishRequest(r) ==
    /\ rpc[r] = "crawling"
    /\ rpc' = [rpc EXCEPT ![r] = "done"]
    /\ scraper_base_url' = IF Passed(rarg[r]) THEN original_base_url[r]
                           ELSE scraper_base_url
    /\ UNCHANGED <<rarg, original_base_url, crawled_with>>
    /\ UNCHANGED notR

EndpointNext ==
    \E r \in Requests :
        \/ \E arg \in BaseUrlArgs : HandleRequest(r, arg)
        \/ CrawlReadsBaseUrl(r)
        \/ FinishRequest(r)

EndpointInit ==
    PipelineIdle /\ HybridIdle /\ MergeIdle /\ LaterIdleExcept("endpoint") /\ EndpointStart

EndpointSpec == EndpointInit /\ [][EndpointNext]_vars

(***************************************************************************)
(* Properties of the base_url endpoints (checked under EndpointSpec)       *)
(***************************************************************************)
AllRequestsCompleted == \A r \in DOMAIN rpc : rpc[r] \in {"idle", "done"}

\* C30: under every interleaving of concurrent requests, once all requests
\* have completed the shared scraper's base_url is its configured value, and
\* a request that passed no base_url crawls with the configured value only.
C30_BaseUrlIsolated ==
    /\ AllRequestsCompleted => scraper_base_url = EDUPORTUGAL_BASE_URL
    /\ \A r \in DOMAIN rpc :
          ~Passed(rarg[r]) => crawled_with[r] \subseteq {EDUPORTUGAL_BASE_URL}

\* the first half of C30 alone
C30_RestoredAtRest ==
    AllRequestsCompleted => scraper_base_url = EDUPORTUGAL_BASE_URL

\* the second half of C30 alone
C30_NoForeignBaseUrl ==
    \A r \in DOMAIN rpc :
        ~Passed(rarg[r]) => crawled_with[r] \subseteq {EDUPORTUGAL_BASE_URL}

(***************************************************************************)
(* Two runs of AgentOrchestrator.search in progress at once on the one     *)
(* orchestrator of main.py.  The runs are tasks of one event loop; a run   *)
(* is suspended inside `await agent.run(context)` and the other run's      *)
(* stages run in between.  The four agents are shared by the runs and hold *)
(* no state of a run.                                                      *)
(***************************************************************************)
Runs == {1, 2}
RunKeywords == {"python", "dev ops"}
RunSources == {"geekhunter", "vagascombr"}
NoMetadata == [remote_only |-> FALSE]

\* the markup the page stage reads at an address, and the records the
\* extractor stage reads off a context's markup
PageOf(url) == "<html>" \o url \o "</html>"
JobsOn(ctx, n) == [i \in 1..n |-> [source |-> ctx.source, page |-> ctx.html_content, n |-> i]]

RunsStart ==
    /\ contexts = <<>>
    /\ kpc = [r \in Runs |-> "idle"] /\ kidx = [r \in Runs |-> 1]
    /\ kctx = [r \in Runs |-> 0]
    /\ kargs = [r \in Runs |-> [keyword |-> "", source |-> ""]]
    /\ own_errors = [r \in Runs |-> <<>>] /\ kreturned = [r \in Runs |-> <<>>]

\* a variant that keeps the context in an attribute of the orchestrator
StartRunSharedContext(r, keyword, source) ==
    /\ kpc[r] = "idle"
    /\ contexts' = <<AgentContext(keyword, source, NoMetadata)>>
    /\ kctx' = [kctx EXCEPT ![r] = 1]
    /\ kpc' = [kpc EXCEPT ![r] = "loop"]
    /\ kargs' = [kargs EXCEPT ![r] = [keyword |-> keyword, source |-> source]]
    /\ UNCHANGED <<kidx, own_errors, kreturned>>
    /\ UNCHANGED notK

\* search(keyword, source, ...): context = AgentContext(...), a new object
\* held by the local variable of this call
StartRun(r, keyword, source) ==
    /\ kpc[r] = "idle"
    /\ contexts' = Append(contexts, AgentContext(keyword, source, NoMetadata))
    /\ kctx' = [kctx EXCEPT ![r] = Len(contexts) + 1]
    /\ kpc' = [kpc EXCEPT ![r] = "loop"]
    /\ kargs' = [kargs EXCEPT ![r] = [keyword |-> keyword, source |-> source]]
    /\ UNCHANGED <<kidx, own_errors, kreturned>>
    /\ UNCHANGED notK

\* agent.run(context) of the stage `name` on the object ctx; exc: the body
\* raises; ok: the page loads / a container is found / cards are found
StageRun(name, ctx, exc, ok) ==
    CASE name = "search" ->
            Run(name, ctx, SearchValidate(ctx), SearchExecute(ctx, exc))
      [] name = "page" ->
            Run(name, ctx, PageValidate(ctx),
                PageExecute(ctx, IF ok /\ ~exc THEN "no" ELSE "goto", PageOf(ctx.search_url)))
      [] name = "analyzer" ->
            Run(name, ctx, AnalyzerValidate(ctx),
                AnalyzerExecute(ctx, exc, IF ok THEN ".job-card" ELSE None))
      [] name = "extractor" ->
            Run(name, ctx, ExtractorValidate(ctx),
                ExtractorExecute(ctx, exc, ok, JobsOn(ctx, 1)))

\* one iteration of a run's for-loop: result = await agent.run(context) on
\* the run's context object, and the break of a critical failure
RunIterate(r, exc, ok) ==
    /\ kpc[r] = "loop"
    /\ LET name == pipeline[kidx[r]]
           before == contexts[kctx[r]]
           res == StageRun(name, before, exc, ok)
       IN  /\ contexts' = [contexts EXCEPT ![kctx[r]] = res.ctx]
           /\ own_errors' = [own_errors EXCEPT ![r] =
                 @ \o SubSeq(res.ctx.errors, Len(before.errors) + 1, Len(res.ctx.errors))]
           /\ IF (res.result.status = FAILED /\ Critical(name)) \/ kidx[r] = Len(pipeline)
              THEN kpc' = [kpc EXCEPT ![r] = "return"] /\ kidx' = kidx
              ELSE kpc' = kpc /\ kidx' = [kidx EXCEPT ![r] = @ + 1]
    /\ UNCHANGED <<kctx, kargs, kreturned>>
    /\ UNCHANGED notK

\* return context.jobs, context.errors
RunReturn(r) ==
    /\ kpc[r] = "return"
    /\ kpc' = [kpc EXCEPT ![r] = "done"]
    /\ kreturned' = [kreturned EXCEPT ![r] =
          <<[jobs |-> contexts[kctx[r]].jobs, errors |-> contexts[kctx[r]].errors]>>]
    /\ UNCHANGED <<contexts, kidx, kctx, kargs, own_errors>>
    /\ UNCHANGED notK

RunsNext ==
    \E r \in Runs :
        \/ \E keyword \in RunKeywords, source \in RunSources : StartRun(r, keyword, source)
        \/ \E exc \in BOOLEAN, ok \in BOOLEAN : RunIterate(r, exc, ok)
        \/ RunReturn(r)

RunsInit ==
    PipelineIdle /\ HybridIdle /\ MergeIdle /\ LaterIdleExcept("runs") /\ RunsStart

RunsSpec == RunsInit /\ [][RunsNext]_vars

(***************************************************************************)
(* Properties of concurrent runs (checked under RunsSpec)                  *)
(***************************************************************************)
RunsStarted == { r \in DOMAIN kpc : kpc[r] # "idle" }

\* the markup of the address the search stage builds for a run's own
\* keyword and source
OwnPage(r) ==
    PageOf(BuildUrl(AgentContext(kargs[r].keyword, kargs[r].source, NoMetadata)))

\* C21: two concurrent runs on one orchestrator never share a context; the
\* errors a run returns are those its own stages added, in order, and the
\* records it returns were read by its own stages off the page of its own
\* keyword and source.
C21_RunsIsolated ==
    /\ \A r1, r2 \in RunsStarted : r1 # r2 => kctx[r1] # kctx[r2]
    /\ \A r \in RunsStarted :
          kreturned[r] # <<>> =>
              /\ kreturned[r][1].errors = own_errors[r]
              /\ \A i \in DOMAIN kreturned[r][1].jobs :
                    /\ kreturned[r][1].jobs[i].source = kargs[r].source
                    /\ kreturned[r][1].jobs[i].page = OwnPage(r)

\* run 2 started after run 1 and returned a record while run 1 was still
\* between its stages, with an error of its own
C21_Witness ==
    /\ kctx = <<1, 2>> /\ kargs[1] # kargs[2]
    /\ kpc[1] = "loop" /\ kidx[1] = 4 /\ own_errors[1] # <<>>
    /\ kpc[2] = "done" /\ Len(kreturned[2][1].jobs) = 1

====
